---- MODULE Spec2Model ----
(***************************************************************************)
(* Model of the LabGrid orchestration engine of labkit:                    *)
(*   labkit/labgrid/task_manager.py      TaskManager                       *)
(*   labkit/labgrid/resource_manager.py  ResourceManager                   *)
(*   labkit/labgrid/framework.py         LabGrid (facade and worker pool)  *)
(*                                                                         *)
(* Every method that runs under a component lock is one atomic action.     *)
(* A worker is a process whose position (pc) lies between two such calls.  *)
(* Timestamps are logical: created_time is the value of the task-id        *)
(* counter at creation (datetime.now() is strictly increasing between two  *)
(* create_task calls), heartbeats are values of the clock `now`.           *)
(***************************************************************************)
EXTENDS Integers, Sequences, FiniteSets, TLC

\* ------------------------------------------------------------------ bounds
MaxTasks == 2            \* number of tasks ever created
NumWorkers == 2          \* size of the worker pool
NumServers == 2          \* configured hosts
MaxConcurrent == 2       \* largest max_concurrent_tasks of a host
MaxQueueSize == 2        \* largest configured task_queue_size
MaxPriority == 1         \* priorities 0..MaxPriority
MaxRetries == 1          \* retry_count 0..MaxRetries
MaxTime == 6             \* the clock (in minutes) stops here
ClockStep == 3           \* minutes between two observations of the clock
SoloRetries == 2         \* retry_count of the task of LifecycleSpec is 0..SoloRetries
ConfigTimeout == 2       \* ExperimentConfig.timeout of that task, in minutes
WaitTimeout == 3         \* a positive timeout of wait_for_task_completion
MaxPolls == 2            \* sleeps of one wait_for_task_completion call
NumLabs == 2             \* experiment instances created in one run
MaxMonitors == 2         \* monitoring threads ever started
NumExperiments == 3      \* SATuSGH experiment tasks run by the pool
NumSatServers == 2       \* hosts configured for the SATuSGH manager

\* ------------------------------------------------------- program constants
HeartbeatTimeout == 5    \* timedelta(minutes=5)
HighPriority == 5        \* priority_based: task_priority > 5

None == 0 - 1            \* Python None where a number or a name is expected
NoneStr == "None"        \* Python None where a string is expected
Workers == 1..NumWorkers
Servers == 1..NumServers
MonThreads == 1..MaxMonitors
Experiments == 1..NumExperiments
SatServers == 1..NumSatServers
Components == {"task_manager", "resource_manager"}
CallerThread == 0        \* the thread that calls the managers' methods
TaskIds == 1..MaxTasks
Labs == 1..NumLabs

\* Registered experiment classes.  "noop": every phase succeeds; "failing":
\* a phase returns false on every run; "broken": the constructor raises;
\* "raising": run() is overridden and raises.
ExperimentTypes == {"noop", "failing", "broken", "raising"}

VARIABLES
    \* TaskManager
    tasks,              \* self.tasks: task_id -> Task
    running_tasks,      \* self.running_tasks (set of task ids)
    completed_tasks,    \* self.completed_tasks
    failed_tasks,       \* self.failed_tasks
    task_queue,         \* self.task_queue: entries <<-priority, created, id>>
    max_queue_size,     \* self.max_queue_size
    stats,              \* self.stats
    task_id_counter,    \* self._task_id_counter
    put_blocked,        \* task whose retry put() waits for queue space
                        \* (its caller holds TaskManager.lock), or None
    \* ResourceManager
    server_resources,   \* self.server_resources: name -> ServerInfo
    allocation_strategy,
    now,                \* wall clock
    \* LabGrid
    worker_threads_active,
    pc,                 \* position of each worker in _worker_thread
    wtask,              \* its local `task`
    wserver,            \* its local `server_name`
    wresume,            \* where it continues after a blocked fail_task
    \* observation
    lifecycle_runs,     \* task id -> number of experiment.run() calls
    dequeued_ct,        \* priority -> latest created_time dequeued so far
    ret,                \* last API call and its return value
    \* LabGrid: start/stop, and a caller waiting for a task
    is_running,         \* LabGrid.is_running
    live,               \* worker threads that have not returned
    stopping,           \* stop() is between its two halves
    waiter,             \* a wait_for_task_completion call: its locals
    \* Lab instances and ResultManager
    labs,               \* experiment instances: position in run(), self.result
    result_index,       \* ResultManager.result_index: experiment_id -> result
    metadata_file,      \* results of metadata.json: experiment_id -> dict
    \* ResourceManager monitoring
    monitoring_active,  \* self.monitoring_active
    monitoring_thread,  \* self.monitoring_thread: the thread created last
    monitor,            \* each monitoring thread: position and host probed
    joining,            \* stop_monitoring is inside monitoring_thread.join
    \* locks and calls that leave the component
    lock_holder,        \* component -> thread inside its `with self.lock`
    in_call,            \* the outside call the caller thread is inside
    callbacks,          \* ids of the tasks created with a callback
    \* SATuSGHManager
    server_status,      \* self.server_status: name -> "idle" | "busy"
    exp                 \* each _run_single_experiment: position, task.server_name

tmvars == <<tasks, running_tasks, completed_tasks, failed_tasks, task_queue,
            max_queue_size, stats, task_id_counter, put_blocked>>
rmvars == <<server_resources, allocation_strategy, now>>
wvars == <<worker_threads_active, pc, wtask, wserver, wresume>>
obsvars == <<lifecycle_runs, dequeued_ct, ret>>
fwvars == <<is_running, live, stopping, waiter>>
labvars == <<labs, result_index, metadata_file>>
monvars == <<monitoring_active, monitoring_thread, monitor, joining>>
lockvars == <<lock_holder, in_call, callbacks>>
satvars == <<server_status, exp>>
convars == <<monvars, lockvars, satvars>>
vars == <<tmvars, rmvars, wvars, obsvars, fwvars, labvars, convars>>

\* ================================================================ helpers

\* A monitoring thread that was never created.
NoMonitor == [pc |-> "none", host |-> 0]

\* An experiment task that _run_single_experiment was not called for yet.
NoExperiment == [pc |-> "none", server_name |-> None]

\* No wait_for_task_completion call is in progress.
NoWaiter == [pc |-> "none", task_id |-> None, timeout |-> None,
             start_time |-> None, polls |-> 0, result |-> FALSE]

\* ExperimentConfig as far as the engine reads it.
Configs(ids) ==
    [experiment_type : ExperimentTypes,
     priority : 0..MaxPriority,
     retry_count : 0..MaxRetries,
     dependencies : {{}} \cup {{d} : d \in ids}]

\* Fault variant of EntryLess: the priority is not negated in the entry, so
\* the lowest priority comes first.
EntryLess_PriorityAscending(a, b) ==
    \/ a[1] > b[1]
    \/ a[1] = b[1] /\ a[2] < b[2]

\* Tuple order of the queue entries (-priority, created_time.timestamp(), task).
EntryLess(a, b) ==
    \/ a[1] < b[1]
    \/ a[1] = b[1] /\ a[2] < b[2]

\* Fault variant of QueuePut: a plain FIFO queue.Queue.
QueuePut_Fifo(q, e) == Append(q, e)

\* queue.PriorityQueue.put: the heap is represented by its sorted contents.
QueuePut(q, e) ==
    LET k == Cardinality({i \in 1..Len(q) : ~EntryLess(e, q[i])})
    IN  SubSeq(q, 1, k) \o <<e>> \o SubSeq(q, k + 1, Len(q))

\* Fault variant of QueueFull: full() off by one.
QueueFull_OffByOne(q) == Len(q) > max_queue_size

\* queue.PriorityQueue.full()
QueueFull(q) == Len(q) >= max_queue_size

QueueEntry(tks, task_id) ==
    <<0 - tks[task_id].priority, tks[task_id].created_time, task_id>>

InQueue(task_id) == \E i \in 1..Len(task_queue) : task_queue[i][3] = task_id

\* ============================================================ TaskManager

\* Holding TaskManager.lock is possible only while no retry put() is waiting.
LockFree == put_blocked = None

\* Fault variant of _check_dependencies: the status of a dependency is not
\* looked at.
_check_dependencies_IgnoringStatus(tks, task) ==
    \A dep_id \in task.dependencies : dep_id \in DOMAIN tks

\* TaskManager._check_dependencies, on the task table tks
_check_dependencies(tks, task) ==
    \A dep_id \in task.dependencies :
        /\ dep_id \in DOMAIN tks
        /\ tks[dep_id].status = "completed"

\* The Task object create_task builds.
NewTask(task_id, experiment_type, config, priority, max_retries, dependencies) ==
    [experiment_type |-> experiment_type,
     config |-> config,
     status |-> "pending",
     created_time |-> task_id,
     start_time |-> None,
     end_time |-> None,
     assigned_server |-> None,
     error_message |-> NoneStr,
     result |-> NoneStr,
     retry_count |-> 0,
     max_retries |-> max_retries,
     priority |-> priority,
     dependencies |-> dependencies]

\* TaskManager.create_task; task_id is the id it returns.
create_task(experiment_type, config, priority, max_retries, dependencies, task_id) ==
    /\ LockFree
    /\ task_id_counter < MaxTasks
    /\ task_id = task_id_counter + 1
    /\ task_id_counter' = task_id
    /\ tasks' = tasks @@ (task_id :> NewTask(task_id, experiment_type, config,
                                              priority, max_retries, dependencies))
    /\ stats' = [stats EXCEPT !.total_created = @ + 1]
    /\ UNCHANGED <<running_tasks, completed_tasks, failed_tasks, task_queue,
                   max_queue_size, put_blocked>>

\* What submit_task returns for task_id on the task table tks and queue q.
submit_ok(tks, q, task_id) ==
    /\ task_id \in DOMAIN tks
    /\ _check_dependencies(tks, tks[task_id])
    /\ ~QueueFull(q)

\* TaskManager.submit_task
submit_task(task_id, result) ==
    /\ LockFree
    /\ result = submit_ok(tasks, task_queue, task_id)
    /\ task_queue' = IF result THEN QueuePut(task_queue, QueueEntry(tasks, task_id))
                     ELSE task_queue
    /\ UNCHANGED <<tasks, running_tasks, completed_tasks, failed_tasks,
                   max_queue_size, stats, task_id_counter, put_blocked>>

\* Fault variant of get_next_task: the entry is read and left in the queue.
get_next_task_Peek(result) ==
    /\ result = IF task_queue = <<>> THEN None ELSE Head(task_queue)[3]
    /\ UNCHANGED <<tasks, running_tasks, completed_tasks, failed_tasks,
                   task_queue, max_queue_size, stats, task_id_counter,
                   put_blocked>>

\* TaskManager.get_next_task: get_nowait() on the queue, which has its own
\* mutex and does not take TaskManager.lock.  result is a task id or None.
get_next_task(result) ==
    /\ IF task_queue = <<>>
       THEN result = None /\ task_queue' = task_queue
       ELSE result = Head(task_queue)[3] /\ task_queue' = Tail(task_queue)
    /\ UNCHANGED <<tasks, running_tasks, completed_tasks, failed_tasks,
                   max_queue_size, stats, task_id_counter, put_blocked>>

\* TaskManager.start_task
start_task(task_id, server_name, result) ==
    /\ LockFree
    /\ result = (task_id \in DOMAIN tasks /\ tasks[task_id].status = "pending")
    /\ IF result
       THEN /\ tasks' = [tasks EXCEPT ![task_id].status = "running",
                                      ![task_id].start_time = now,
                                      ![task_id].assigned_server = server_name]
            /\ running_tasks' = running_tasks \cup {task_id}
       ELSE UNCHANGED <<tasks, running_tasks>>
    /\ UNCHANGED <<completed_tasks, failed_tasks, task_queue, max_queue_size,
                   stats, task_id_counter, put_blocked>>

\* TaskManager.complete_task
complete_task(task_id, res, result) ==
    /\ LockFree
    /\ result = (task_id \in running_tasks)
    /\ IF result
       THEN /\ tasks' = [tasks EXCEPT ![task_id].status = "completed",
                                      ![task_id].end_time = now,
                                      ![task_id].result = res]
            /\ completed_tasks' = completed_tasks \cup {task_id}
            /\ running_tasks' = running_tasks \ {task_id}
            /\ stats' = [stats EXCEPT !.total_completed = @ + 1]
       ELSE UNCHANGED <<tasks, completed_tasks, running_tasks, stats>>
    /\ UNCHANGED <<failed_tasks, task_queue, max_queue_size, task_id_counter,
                   put_blocked>>

\* The fields fail_task resets before it re-queues the task.
RetryReset(task) ==
    [task EXCEPT !.retry_count = @ + 1,
                 !.status = "pending",
                 !.start_time = None,
                 !.end_time = None,
                 !.assigned_server = None,
                 !.error_message = NoneStr]

\* Fault variant of fail_task: the retry test lets one retry too many through.
fail_task_NoRetryLimit(task_id, error_message, result) ==
    /\ LockFree
    /\ IF task_id \notin running_tasks
       THEN /\ result = FALSE
            /\ UNCHANGED <<tasks, running_tasks, failed_tasks, task_queue,
                           stats, put_blocked>>
       ELSE IF tasks[task_id].retry_count <= tasks[task_id].max_retries
       THEN /\ tasks' = [tasks EXCEPT ![task_id] = RetryReset(@)]
            /\ IF QueueFull(task_queue)
               THEN /\ result = TRUE
                    /\ put_blocked' = task_id
                    /\ UNCHANGED <<task_queue, stats>>
               ELSE /\ result = TRUE
                    /\ task_queue' = QueuePut(task_queue, QueueEntry(tasks, task_id))
                    /\ stats' = [stats EXCEPT !.total_retried = @ + 1]
                    /\ UNCHANGED put_blocked
            /\ UNCHANGED <<running_tasks, failed_tasks>>
       ELSE /\ result = TRUE
            /\ tasks' = [tasks EXCEPT ![task_id].status = "failed",
                                      ![task_id].end_time = now,
                                      ![task_id].error_message = error_message]
            /\ failed_tasks' = failed_tasks \cup {task_id}
            /\ running_tasks' = running_tasks \ {task_id}
            /\ stats' = [stats EXCEPT !.total_failed = @ + 1]
            /\ UNCHANGED <<task_queue, put_blocked>>
    /\ UNCHANGED <<completed_tasks, max_queue_size, task_id_counter>>

\* TaskManager.fail_task.  When the retry's task_queue.put() finds the bounded
\* queue full it waits, the caller still holding TaskManager.lock: put_blocked
\* is set and the call returns (result) only after fail_task_resume.
fail_task(task_id, error_message, result) ==
    /\ LockFree
    /\ IF task_id \notin running_tasks
       THEN /\ result = FALSE
            /\ UNCHANGED <<tasks, running_tasks, failed_tasks, task_queue,
                           stats, put_blocked>>
       ELSE IF tasks[task_id].retry_count < tasks[task_id].max_retries
       THEN /\ tasks' = [tasks EXCEPT ![task_id] = RetryReset(@)]
            /\ IF QueueFull(task_queue)
               THEN /\ result = TRUE
                    /\ put_blocked' = task_id
                    /\ UNCHANGED <<task_queue, stats>>
               ELSE /\ result = TRUE
                    /\ task_queue' = QueuePut(task_queue, QueueEntry(tasks, task_id))
                    /\ stats' = [stats EXCEPT !.total_retried = @ + 1]
                    /\ UNCHANGED put_blocked
            /\ UNCHANGED <<running_tasks, failed_tasks>>
       ELSE /\ result = TRUE
            /\ tasks' = [tasks EXCEPT ![task_id].status = "failed",
                                      ![task_id].end_time = now,
                                      ![task_id].error_message = error_message]
            /\ failed_tasks' = failed_tasks \cup {task_id}
            /\ running_tasks' = running_tasks \ {task_id}
            /\ stats' = [stats EXCEPT !.total_failed = @ + 1]
            /\ UNCHANGED <<task_queue, put_blocked>>
    /\ UNCHANGED <<completed_tasks, max_queue_size, task_id_counter>>

\* The rest of fail_task's retry branch, once the queue has space again.
fail_task_resume ==
    /\ put_blocked # None
    /\ ~QueueFull(task_queue)
    /\ task_queue' = QueuePut(task_queue, QueueEntry(tasks, put_blocked))
    /\ stats' = [stats EXCEPT !.total_retried = @ + 1]
    /\ put_blocked' = None
    /\ UNCHANGED <<tasks, running_tasks, completed_tasks, failed_tasks,
                   max_queue_size, task_id_counter>>

\* TaskManager.cancel_task
cancel_task(task_id, result) ==
    /\ LockFree
    /\ result = (/\ task_id \in DOMAIN tasks
                 /\ tasks[task_id].status \in {"pending", "running"})
    /\ tasks' = IF result THEN [tasks EXCEPT ![task_id].status = "cancelled"]
                ELSE tasks
    /\ UNCHANGED <<running_tasks, completed_tasks, failed_tasks, task_queue,
                   max_queue_size, stats, task_id_counter, put_blocked>>

\* ======================================================== ResourceManager

\* servers.json: max_concurrent_tasks of each host.  The first host takes one
\* task at a time, the others MaxConcurrent.
ServerConfig(server_name) ==
    [max_concurrent_tasks |-> IF server_name = 1 THEN 1 ELSE MaxConcurrent]

\* ResourceManager._init_server_resources
_init_server_resources ==
    [server_name \in Servers |->
        [status |-> "offline",
         current_tasks |-> 0,
         max_tasks |-> ServerConfig(server_name).max_concurrent_tasks,
         last_heartbeat |-> None]]

\* "time_since_heartbeat > timedelta(minutes=5)"
HeartbeatExpired(info) ==
    /\ info.last_heartbeat # None
    /\ now - info.last_heartbeat > HeartbeatTimeout

\* Fault variant of Candidates: the task-count test is missing.
Candidates_IgnoringCapacity(sr) ==
    {h \in DOMAIN sr : sr[h].status \notin {"offline", "error"}}

\* Hosts that pass the status and task-count tests of _get_available_servers.
Candidates(sr) ==
    {h \in DOMAIN sr : /\ sr[h].status \notin {"offline", "error"}
                     /\ sr[h].current_tasks < sr[h].max_tasks}

\* ResourceManager._get_available_servers: the list it returns (in the
\* iteration order of server_resources) as a set ...
_get_available_servers(sr) ==
    {h \in Candidates(sr) : ~HeartbeatExpired(sr[h])}

\* ... and the host table it leaves behind: a candidate with an expired
\* heartbeat is marked offline.
MarkExpired(sr) ==
    [h \in DOMAIN sr |->
        IF h \in Candidates(sr) /\ HeartbeatExpired(sr[h])
        THEN [sr[h] EXCEPT !.status = "offline"]
        ELSE sr[h]]

Min(S) == CHOOSE x \in S : \A y \in S : x <= y

\* ResourceManager._round_robin_allocation: available_servers[0]
_round_robin_allocation(sr, available_servers) ==
    IF available_servers = {} THEN None ELSE Min(available_servers)

\* ResourceManager._least_loaded_allocation: min() keeps the first minimum
_least_loaded_allocation(sr, available_servers) ==
    IF available_servers = {} THEN None
    ELSE Min({h \in available_servers :
                 \A g \in available_servers :
                     sr[h].current_tasks <= sr[g].current_tasks})

\* ResourceManager._priority_based_allocation
_priority_based_allocation(sr, available_servers, task_priority) ==
    IF task_priority > HighPriority
    THEN _least_loaded_allocation(sr, available_servers)
    ELSE _round_robin_allocation(sr, available_servers)

SelectServer(sr, available_servers, task_priority) ==
    IF allocation_strategy = "least_loaded"
    THEN _least_loaded_allocation(sr, available_servers)
    ELSE IF allocation_strategy = "priority_based"
    THEN _priority_based_allocation(sr, available_servers, task_priority)
    ELSE _round_robin_allocation(sr, available_servers)

\* Fault variant of Allocated: the host is marked busy one task too late.
Allocated_BusyLate(info) ==
    [info EXCEPT !.current_tasks = @ + 1,
                 !.status = IF info.current_tasks + 1 > info.max_tasks
                            THEN "busy" ELSE @]

\* The ServerInfo of the selected host after allocate_server.
Allocated(info) ==
    [info EXCEPT !.current_tasks = @ + 1,
                 !.status = IF info.current_tasks + 1 >= info.max_tasks
                            THEN "busy" ELSE @]

\* ResourceManager.allocate_server; result is a host or None.
allocate_server(task_priority, result) ==
    LET sr == MarkExpired(server_resources)
        available_servers == _get_available_servers(server_resources)
    IN  /\ result = SelectServer(sr, available_servers, task_priority)
        /\ server_resources' =
               IF result = None THEN sr
               ELSE [sr EXCEPT ![result] = Allocated(@)]
        /\ UNCHANGED <<allocation_strategy, now>>

\* Fault variant of Released: the task count is not decremented.
Released_KeepingCount(info) == [info EXCEPT !.status = "idle"]

\* The ServerInfo of a host after release_server.
Released(info) ==
    LET n == IF info.current_tasks - 1 > 0 THEN info.current_tasks - 1 ELSE 0
    IN  [info EXCEPT !.current_tasks = n,
                     !.status = IF n = 0 THEN "idle"
                                ELSE IF @ = "busy" THEN "idle" ELSE @]

\* ResourceManager.release_server
release_server(server_name) ==
    /\ server_resources' =
           IF server_name \in DOMAIN server_resources
           THEN [server_resources EXCEPT ![server_name] = Released(@)]
           ELSE server_resources
    /\ UNCHANGED <<allocation_strategy, now>>

\* ResourceManager.set_allocation_strategy
set_allocation_strategy(strategy) ==
    /\ allocation_strategy' =
           IF strategy \in {"round_robin", "least_loaded", "priority_based"}
           THEN strategy ELSE "round_robin"
    /\ UNCHANGED <<server_resources, now>>

\* ResourceManager._collect_resource_metrics, for one host whose
\* get_system_info answers (nothing changes for a host that does not): the
\* probe is made without the lock, the update of the host table under it.
_collect_resource_metrics(server_name) ==
    /\ server_resources' = [server_resources EXCEPT
           ![server_name].last_heartbeat = now,
           ![server_name].status = IF @ = "offline" THEN "idle" ELSE @]
    /\ UNCHANGED <<allocation_strategy, now>>

\* Time passes.
Tick ==
    /\ now + ClockStep <= MaxTime
    /\ now' = now + ClockStep
    /\ UNCHANGED <<server_resources, allocation_strategy>>

\* ================================================================ LabGrid

\* LabGrid.start / _start_worker_threads
start ==
    /\ ~worker_threads_active
    /\ worker_threads_active' = TRUE
    /\ UNCHANGED <<pc, wtask, wserver, wresume>>
    /\ UNCHANGED <<tmvars, rmvars, obsvars, fwvars, labvars, convars>>

\* LabGrid.run_experiment: create_task followed by submit_task.  The task is
\* created without the dependencies of its config.
run_experiment(experiment_type, config) ==
    LET task_id == task_id_counter + 1
        tks == tasks @@ (task_id :> NewTask(task_id, experiment_type, config,
                                            config.priority, config.retry_count, {}))
        accepted == submit_ok(tks, task_queue, task_id)
    IN  /\ experiment_type \in ExperimentTypes
        /\ LockFree
        /\ task_id_counter < MaxTasks
        /\ task_id_counter' = task_id
        /\ tasks' = tks
        /\ stats' = [stats EXCEPT !.total_created = @ + 1]
        /\ task_queue' = IF accepted THEN QueuePut(task_queue, QueueEntry(tks, task_id))
                         ELSE task_queue
        /\ UNCHANGED <<running_tasks, completed_tasks, failed_tasks,
                       max_queue_size, put_blocked>>
        /\ UNCHANGED <<rmvars, wvars, obsvars, fwvars, labvars, convars>>

\* LabGrid.get_experiment_result: task.result of a known task that has one,
\* else None.
get_experiment_result(task_id) ==
    IF task_id \in DOMAIN tasks /\ tasks[task_id].result # NoneStr
    THEN tasks[task_id].result
    ELSE NoneStr

\* The engine is driven with one priority class; the order of the queue is
\* the subject of TMSpec.
RunExperiment ==
    \E config \in Configs(DOMAIN tasks) :
        /\ config.priority = 0
        /\ run_experiment(config.experiment_type, config)

\* A caller cancels a task.
CancelTask ==
    \E task_id \in DOMAIN tasks : \E result \in BOOLEAN :
        /\ cancel_task(task_id, result)
        /\ result
        /\ UNCHANGED <<rmvars, wvars, obsvars, fwvars, labvars, convars>>

\* Where a worker goes after its fail_task call: to `next`, or to "blocked"
\* while the retry's put() waits.
AfterFail(w, next) ==
    IF put_blocked' # None
    THEN /\ pc' = [pc EXCEPT ![w] = "blocked"]
         /\ wresume' = [wresume EXCEPT ![w] = next]
    ELSE /\ pc' = [pc EXCEPT ![w] = next]
         /\ UNCHANGED wresume

\* _worker_thread: task = self.task_manager.get_next_task()
WorkerGetTask(w) ==
    /\ worker_threads_active
    /\ pc[w] = "idle"
    /\ \E result \in TaskIds \cup {None} :
        /\ get_next_task(result)
        /\ result # None
        /\ wtask' = [wtask EXCEPT ![w] = result]
        /\ pc' = [pc EXCEPT ![w] = "allocate"]
    /\ UNCHANGED <<worker_threads_active, wserver, wresume>>
    /\ UNCHANGED <<rmvars, obsvars, fwvars, labvars, convars>>

\* _execute_task: allocate_server; without a host, fail_task and return.
WorkerAllocate(w) ==
    /\ pc[w] = "allocate"
    /\ \E server_name \in Servers \cup {None} :
        /\ allocate_server(tasks[wtask[w]].config.priority, server_name)
        /\ IF server_name = None
           THEN /\ \E result \in BOOLEAN :
                       fail_task(wtask[w], "no server", result)
                /\ AfterFail(w, "idle")
                /\ UNCHANGED wserver
           ELSE /\ wserver' = [wserver EXCEPT ![w] = server_name]
                /\ pc' = [pc EXCEPT ![w] = "start"]
                /\ UNCHANGED <<tmvars, wresume>>
    /\ UNCHANGED <<worker_threads_active, wtask, obsvars, fwvars, labvars, convars>>

\* Fault variant of WorkerStart: a rejected start_task returns without
\* releasing the host.
WorkerStart_NoReleaseOnReject(w) ==
    /\ pc[w] = "start"
    /\ \E result \in BOOLEAN :
        /\ start_task(wtask[w], wserver[w], result)
        /\ pc' = [pc EXCEPT ![w] = IF result THEN "run" ELSE "idle"]
    /\ UNCHANGED <<worker_threads_active, wtask, wserver, wresume>>
    /\ UNCHANGED <<rmvars, obsvars, fwvars, labvars, convars>>

\* _execute_task: start_task; when it is rejected, release the host.
WorkerStart(w) ==
    /\ pc[w] = "start"
    /\ \E result \in BOOLEAN :
        /\ start_task(wtask[w], wserver[w], result)
        /\ pc' = [pc EXCEPT ![w] = IF result THEN "run" ELSE "release"]
    /\ UNCHANGED <<worker_threads_active, wtask, wserver, wresume>>
    /\ UNCHANGED <<rmvars, obsvars, fwvars, labvars, convars>>

\* _execute_task: create_experiment, experiment.run(), store_result and the
\* complete_task or fail_task that follows.  When run() raises, the finally
\* clause releases the host before the handler calls fail_task.
WorkerRun(w) ==
    LET task_id == wtask[w]
        type == tasks[task_id].experiment_type
    IN  /\ pc[w] = "run"
        /\ lifecycle_runs' =
               IF type = "broken" THEN lifecycle_runs
               ELSE [lifecycle_runs EXCEPT ![task_id] = @ + 1]
        /\ IF type = "raising"
           THEN /\ pc' = [pc EXCEPT ![w] = "finally"]
                /\ UNCHANGED <<tmvars, wresume>>
           ELSE IF type = "noop"
           THEN /\ \E result \in BOOLEAN :
                       complete_task(task_id, "completed", result)
                /\ pc' = [pc EXCEPT ![w] = "release"]
                /\ UNCHANGED wresume
           ELSE /\ \E result \in BOOLEAN :
                       fail_task(task_id,
                                 IF type = "broken" THEN "no experiment"
                                 ELSE "phase failed", result)
                /\ AfterFail(w, "release")
        /\ UNCHANGED <<worker_threads_active, wtask, wserver>>
        /\ UNCHANGED <<rmvars, dequeued_ct, ret, fwvars, labvars, convars>>

\* _execute_task: self.resource_manager.release_server(server_name)
WorkerRelease(w) ==
    /\ pc[w] \in {"release", "finally"}
    /\ release_server(wserver[w])
    /\ pc' = [pc EXCEPT ![w] = IF pc[w] = "finally" THEN "except" ELSE "idle"]
    /\ UNCHANGED <<worker_threads_active, wtask, wserver, wresume>>
    /\ UNCHANGED <<tmvars, obsvars, fwvars, labvars, convars>>

\* _execute_task: except Exception: fail_task(task_id, str(e)); the
\* experiment has already released its server.
WorkerExcept(w) ==
    /\ pc[w] = "except"
    /\ \E result \in BOOLEAN : fail_task(wtask[w], "exception", result)
    /\ AfterFail(w, "idle")
    /\ UNCHANGED <<worker_threads_active, wtask, wserver>>
    /\ UNCHANGED <<rmvars, obsvars, fwvars, labvars, convars>>

\* The worker whose fail_task waited in put() returns from it.
WorkerResume(w) ==
    /\ pc[w] = "blocked"
    /\ fail_task_resume
    /\ pc' = [pc EXCEPT ![w] = wresume[w]]
    /\ UNCHANGED <<worker_threads_active, wtask, wserver, wresume>>
    /\ UNCHANGED <<rmvars, obsvars, fwvars, labvars, convars>>

\* _monitoring_worker: one host of one monitoring cycle
Monitor ==
    \E server_name \in Servers :
        /\ _collect_resource_metrics(server_name)
        /\ UNCHANGED <<tmvars, wvars, obsvars, fwvars, labvars, convars>>

\* ================================================== Lab and ResultManager
\* Values carry their Python type: <<"ExperimentStatus", name>> is a member
\* of the enumeration and <<"int", n>> an integer, <<"datetime", t>> a
\* datetime and <<"str", t>> its isoformat() string, PyNone is None.

PyNone == <<"NoneType", 0>>
DateTime(t) == <<"datetime", t>>
Status(name) == <<"ExperimentStatus", name>>

\* class ExperimentStatus(Enum): the members in the order of their auto()
\* values.
ExperimentStatusNames ==
    <<"PENDING", "INITIALIZING", "RUNNING", "COLLECTING", "ANALYZING",
      "SAVING", "CLEANING", "COMPLETED", "FAILED", "CANCELLED">>

\* member.value
StatusValue(name) ==
    CHOOSE i \in 1..Len(ExperimentStatusNames) : ExperimentStatusNames[i] = name

\* Lab._create_result: experiment_id is "exp_" and the clock in whole
\* milliseconds; the clock of the model is the value read.
_create_result ==
    [experiment_id |-> now,
     status |-> Status("PENDING"),
     start_time |-> PyNone,
     end_time |-> PyNone,
     metrics |-> "empty",
     error_message |-> NoneStr]

\* An instance that has not been constructed.
NoLab == [pc |-> "none",
          result |-> [experiment_id |-> None, status |-> PyNone,
                      start_time |-> PyNone, end_time |-> PyNone,
                      metrics |-> "empty", error_message |-> NoneStr],
          statuses |-> <<>>,
          invoked |-> <<>>]

\* The status Lab.run assigns before it calls a phase.
PhaseStatus(p) ==
    CASE p = "initialize" -> Status("INITIALIZING")
      [] p = "execute" -> Status("RUNNING")
      [] p = "collect_data" -> Status("COLLECTING")
      [] p = "analyze_data" -> Status("ANALYZING")
      [] p = "save_data" -> Status("SAVING")
      [] p = "cleanup" -> Status("CLEANING")

\* The error message Lab.run records when a checked phase returns False.
FailureMessage(p) ==
    CASE p = "initialize" -> "initialize failed"
      [] p = "execute" -> "execute failed"
      [] p = "collect_data" -> "collect_data failed"

\* Fault variant of RunExcept: the handler forgets what analyze_data
\* attached and the end time.
RunExcept_DroppingResult(result, message) ==
    [result EXCEPT !.status = Status("FAILED"),
                   !.error_message = message,
                   !.metrics = "empty"]

\* Lab.run, "except Exception as e": status, str(e) and end time.
RunExcept(result, message) ==
    [result EXCEPT !.status = Status("FAILED"),
                   !.error_message = message,
                   !.end_time = DateTime(now)]

\* Fault variant of SaveDataContinues: a False of save_data ends the run.
SaveDataContinues_OnlyOnSuccess(ok) == ok

\* Lab.run after save_data returned ok: "if not self.save_data():" only
\* logs a warning, the run goes on in both cases.
SaveDataContinues(ok) == TRUE

\* t.isoformat() if t else None
IsoFormat(t) == IF t = PyNone THEN PyNone ELSE <<"str", t[2]>>

\* result.status.value / t.isoformat() raise AttributeError on a value that
\* is no enumeration member / no datetime.
Serializable(result) ==
    /\ result.status[1] = "ExperimentStatus"
    /\ result.start_time[1] \in {"datetime", "NoneType"}
    /\ result.end_time[1] \in {"datetime", "NoneType"}

\* The dict _save_result_index builds for one result.
ResultDict(result) ==
    [experiment_id |-> result.experiment_id,
     status |-> <<"int", StatusValue(result.status[2])>>,
     start_time |-> IsoFormat(result.start_time),
     end_time |-> IsoFormat(result.end_time),
     metrics |-> result.metrics,
     error_message |-> result.error_message]

\* ResultManager._save_result_index: the content of metadata.json after it.
\* The dicts are built before the file is opened; an exception on the way is
\* caught and logged, and the file keeps its content.
_save_result_index(index, file) ==
    IF \A e \in DOMAIN index : Serializable(index[e])
    THEN [e \in DOMAIN index |-> ResultDict(index[e])]
    ELSE file

\* ResultManager._load_result_index of a fresh manager:
\* ExperimentResult(**result_data) keeps every value as json.load gave it.
_load_result_index(file) ==
    [e \in DOMAIN file |-> file[e]]

\* ========================================================== specifications

Init ==
    /\ tasks = <<>>
    /\ running_tasks = {}
    /\ completed_tasks = {}
    /\ failed_tasks = {}
    /\ task_queue = <<>>
    /\ max_queue_size \in 1..MaxQueueSize
    /\ stats = [total_created |-> 0, total_completed |-> 0,
                total_failed |-> 0, total_retried |-> 0]
    /\ task_id_counter = 0
    /\ put_blocked = None
    /\ server_resources = _init_server_resources
    /\ allocation_strategy = "round_robin"
    /\ now = 0
    /\ worker_threads_active = FALSE
    /\ pc = [w \in Workers |-> "idle"]
    /\ wtask = [w \in Workers |-> None]
    /\ wserver = [w \in Workers |-> None]
    /\ wresume = [w \in Workers |-> "idle"]
    /\ lifecycle_runs = [t \in TaskIds |-> 0]
    /\ dequeued_ct = [p \in 0..MaxPriority |-> None]
    /\ ret = <<"init">>
    /\ is_running = FALSE
    /\ live = {}
    /\ stopping = FALSE
    /\ waiter = NoWaiter
    /\ labs = [l \in Labs |-> NoLab]
    /\ result_index = <<>>
    /\ metadata_file = <<>>
    /\ monitoring_active = FALSE
    /\ monitoring_thread = None
    /\ monitor = [m \in MonThreads |-> NoMonitor]
    /\ joining = FALSE
    /\ lock_holder = [c \in Components |-> None]
    /\ in_call = "none"
    /\ callbacks = {}
    /\ server_status = [s \in SatServers |-> "idle"]
    /\ exp = [e \in Experiments |-> NoExperiment]

WorkerStep(w) ==
    \/ WorkerGetTask(w)
    \/ WorkerAllocate(w)
    \/ WorkerStart(w)
    \/ WorkerRun(w)
    \/ WorkerRelease(w)
    \/ WorkerExcept(w)
    \/ WorkerResume(w)

\* The engine: callers of the facade, the worker pool and the monitor.
\* The clock stands still here: the monitor probes every 30 s
\* (monitoring_interval), far inside the 5 minutes a heartbeat lasts, so an
\* engine run sees hosts that are offline (not probed yet) or probed, and
\* heartbeat expiry is exercised by RMSpec below.
Next ==
    \/ start
    \/ RunExperiment
    \/ CancelTask
    \/ \E w \in Workers : WorkerStep(w)
    \/ Monitor

Spec == Init /\ [][Next]_vars

\* The engine without cancel-task calls.
RunNext ==
    \/ start
    \/ RunExperiment
    \/ \E w \in Workers : WorkerStep(w)
    \/ Monitor

RunSpec == Init /\ [][RunNext]_vars

\* Workers and the monitor are threads of their own: each is scheduled again
\* and again, and so is the caller of start.
FairRunSpec ==
    /\ RunSpec
    /\ WF_vars(start)
    /\ \A w \in Workers : WF_vars(WorkerStep(w))
    /\ \A h \in Servers :
           WF_vars(_collect_resource_metrics(h) /\ UNCHANGED <<tmvars, wvars, obsvars, fwvars, labvars, convars>>)

\* ------------------------------------------- the task manager, call by call

Call(op, val) == ret' = <<op, val>>

CreateTaskCall ==
    \E config \in Configs(DOMAIN tasks) : \E task_id \in TaskIds :
        /\ config.experiment_type = "noop"
        /\ create_task(config.experiment_type, config, config.priority,
                       config.retry_count, config.dependencies, task_id)
        /\ Call("create_task", task_id)
        /\ UNCHANGED <<rmvars, wvars, lifecycle_runs, dequeued_ct, fwvars, labvars, convars>>

SubmitTaskCall ==
    \E task_id \in DOMAIN tasks : \E result \in BOOLEAN :
        /\ submit_task(task_id, result)
        /\ ret' = <<"submit_task", result, task_id>>
        /\ UNCHANGED <<rmvars, wvars, lifecycle_runs, dequeued_ct, fwvars, labvars, convars>>

GetNextTaskCall ==
    \E result \in TaskIds \cup {None} :
        /\ get_next_task(result)
        /\ Call("get_next_task", result)
        /\ dequeued_ct' =
               IF result = None THEN dequeued_ct
               ELSE [dequeued_ct EXCEPT ![tasks[result].priority] =
                        IF tasks[result].created_time > @
                        THEN tasks[result].created_time ELSE @]
        /\ UNCHANGED <<rmvars, wvars, lifecycle_runs, fwvars, labvars, convars>>

StartTaskCall ==
    \E task_id \in DOMAIN tasks : \E result \in BOOLEAN :
        /\ start_task(task_id, 1, result)
        /\ Call("start_task", result)
        /\ UNCHANGED <<rmvars, wvars, lifecycle_runs, dequeued_ct, fwvars, labvars, convars>>

CompleteTaskCall ==
    \E task_id \in DOMAIN tasks : \E result \in BOOLEAN :
        /\ complete_task(task_id, "completed", result)
        /\ Call("complete_task", result)
        /\ UNCHANGED <<rmvars, wvars, lifecycle_runs, dequeued_ct, fwvars, labvars, convars>>

\* A fail_task call that waits in put() has not returned yet.
FailTaskCall ==
    \E task_id \in DOMAIN tasks : \E result \in BOOLEAN :
        /\ fail_task(task_id, "failed", result)
        /\ IF put_blocked' # None THEN UNCHANGED ret
           ELSE ret' = <<"fail_task", result, task_id>>
        /\ UNCHANGED <<rmvars, wvars, lifecycle_runs, dequeued_ct, fwvars, labvars, convars>>

FailTaskReturn ==
    /\ fail_task_resume
    /\ ret' = <<"fail_task", TRUE, put_blocked>>
    /\ UNCHANGED <<rmvars, wvars, lifecycle_runs, dequeued_ct, fwvars, labvars, convars>>

CancelTaskCall ==
    \E task_id \in DOMAIN tasks : \E result \in BOOLEAN :
        /\ cancel_task(task_id, result)
        /\ Call("cancel_task", result)
        /\ UNCHANGED <<rmvars, wvars, lifecycle_runs, dequeued_ct, fwvars, labvars, convars>>

TMNext ==
    \/ CreateTaskCall
    \/ SubmitTaskCall
    \/ GetNextTaskCall
    \/ StartTaskCall
    \/ CompleteTaskCall
    \/ FailTaskCall
    \/ FailTaskReturn
    \/ CancelTaskCall

TMSpec == Init /\ [][TMNext]_vars

\* --------------------------------------- the resource manager, call by call

AllocateServerCall ==
    \E task_priority \in {0, HighPriority + 1} :
    \E result \in Servers \cup {None} :
        /\ allocate_server(task_priority, result)
        /\ Call("allocate_server", result)
        /\ UNCHANGED <<tmvars, wvars, lifecycle_runs, dequeued_ct, fwvars, labvars, convars>>

ReleaseServerCall ==
    \E server_name \in Servers :
        /\ release_server(server_name)
        /\ Call("release_server", server_name)
        /\ UNCHANGED <<tmvars, wvars, lifecycle_runs, dequeued_ct, fwvars, labvars, convars>>

SetAllocationStrategyCall ==
    \E strategy \in {"round_robin", "least_loaded", "priority_based", "random"} :
        /\ set_allocation_strategy(strategy)
        /\ Call("set_allocation_strategy", strategy)
        /\ UNCHANGED <<tmvars, wvars, lifecycle_runs, dequeued_ct, fwvars, labvars, convars>>

TimePasses == Tick /\ UNCHANGED <<tmvars, wvars, obsvars, fwvars, labvars, convars>>

RMNext ==
    \/ AllocateServerCall
    \/ ReleaseServerCall
    \/ SetAllocationStrategyCall
    \/ Monitor
    \/ TimePasses

RMSpec == Init /\ [][RMNext]_vars

\* ------------------------------------------------- the lifecycle, by phase
\* One task, followed through Lab.run phase by phase, with cancel_task calls
\* and the clock.

\* The phases of Lab.run, in order.
Phases == <<"initialize", "execute", "collect_data", "analyze_data",
            "save_data", "cleanup">>

PhaseNames == {Phases[i] : i \in 1..Len(Phases)}

\* The phase Lab.run calls after phase p, or "store_completed" after cleanup.
NextPhase(p) ==
    LET i == CHOOSE j \in 1..Len(Phases) : Phases[j] = p
    IN  IF i = Len(Phases) THEN "store_completed" ELSE Phases[i + 1]

\* The phases whose False result ends Lab.run with status FAILED.
CheckedPhases == {"initialize", "execute", "collect_data"}

\* run_experiment for the only task of the run.
SoloRunExperiment ==
    \E experiment_type \in ExperimentTypes : \E r \in 0..SoloRetries :
        /\ task_id_counter = 0
        /\ run_experiment(experiment_type,
                          [experiment_type |-> experiment_type, priority |-> 0,
                           retry_count |-> r, dependencies |-> {}])

\* A caller's cancel_task that returns True; ret keeps the task and the
\* status it had.
CancelRequest ==
    \E task_id \in DOMAIN tasks :
        /\ cancel_task(task_id, TRUE)
        /\ ret' = <<"cancel_task", task_id, tasks[task_id].status>>
        /\ UNCHANGED <<rmvars, wvars, lifecycle_runs, dequeued_ct, fwvars, labvars, convars>>

\* _execute_task: registry.create_experiment and assign_server; without an
\* experiment, fail_task and release.  Then experiment.run() begins.
WorkerCreate(w) ==
    LET task_id == wtask[w]
        type == tasks[task_id].experiment_type
    IN  /\ pc[w] = "run"
        /\ IF type = "broken"
           THEN /\ \E result \in BOOLEAN :
                       fail_task(task_id, "no experiment", result)
                /\ AfterFail(w, "release")
                /\ UNCHANGED lifecycle_runs
           ELSE /\ pc' = [pc EXCEPT ![w] = Phases[1]]
                /\ lifecycle_runs' = [lifecycle_runs EXCEPT ![task_id] = @ + 1]
                /\ UNCHANGED <<tmvars, wresume>>
        /\ UNCHANGED <<worker_threads_active, wtask, wserver>>
        /\ UNCHANGED <<rmvars, dequeued_ct, ret, fwvars, labvars, convars>>

\* Lab.run: the phase pc[w] is called and returns.  Lab.run reads neither
\* the task nor its status between two phases.  A "failing" experiment
\* returns False from one of the checked phases, a "raising" one lets an
\* exception escape run().
LabPhase(w) ==
    LET type == tasks[wtask[w]].experiment_type
        p == pc[w]
    IN  /\ p \in PhaseNames
        /\ \E ok \in BOOLEAN :
            /\ type = "noop" => ok
            /\ (type = "failing" /\ p = "collect_data") => ~ok
            /\ (type = "failing" /\ p \notin CheckedPhases) => ok
            /\ pc' = [pc EXCEPT ![w] =
                          IF type = "raising" THEN "finally"
                          ELSE IF ok THEN NextPhase(p)
                          ELSE "store_failed"]
        /\ UNCHANGED <<worker_threads_active, wtask, wserver, wresume>>
        /\ UNCHANGED <<tmvars, rmvars, obsvars, fwvars, labvars, convars>>

\* Lab.run: the phase pc[w] is called and never returns.
PhaseHangs(w) ==
    /\ pc[w] \in PhaseNames
    /\ pc' = [pc EXCEPT ![w] = "hung"]
    /\ UNCHANGED <<worker_threads_active, wtask, wserver, wresume>>
    /\ UNCHANGED <<tmvars, rmvars, obsvars, fwvars, labvars, convars>>

\* _execute_task after run() has returned: store_result, then complete_task
\* or fail_task by result.status; the finally clause follows.
WorkerFinish(w) ==
    /\ pc[w] \in {"store_completed", "store_failed"}
    /\ IF pc[w] = "store_completed"
       THEN /\ \E result \in BOOLEAN :
                   complete_task(wtask[w], "completed", result)
            /\ pc' = [pc EXCEPT ![w] = "release"]
            /\ UNCHANGED wresume
       ELSE /\ \E result \in BOOLEAN :
                   fail_task(wtask[w], "phase failed", result)
            /\ AfterFail(w, "release")
    /\ UNCHANGED <<worker_threads_active, wtask, wserver>>
    /\ UNCHANGED <<rmvars, obsvars, fwvars, labvars, convars>>

LifecycleStep(w) ==
    \/ WorkerGetTask(w)
    \/ WorkerAllocate(w)
    \/ WorkerStart(w)
    \/ WorkerCreate(w)
    \/ LabPhase(w)
    \/ PhaseHangs(w)
    \/ WorkerFinish(w)
    \/ WorkerRelease(w)
    \/ WorkerExcept(w)

\* With one task the queue never fills, so no retry put() waits.
LifecycleNext ==
    \/ start
    \/ SoloRunExperiment
    \/ CancelRequest
    \/ \E w \in Workers : LifecycleStep(w)
    \/ Monitor
    \/ TimePasses

LifecycleSpec == Init /\ [][LifecycleNext]_vars

\* Workers and monitor are scheduled fairly; a phase that hangs is the
\* experiment's doing.
FairLifecycleSpec ==
    /\ LifecycleSpec
    /\ WF_vars(start)
    /\ \A w \in Workers : WF_vars(LifecycleStep(w))
    /\ \A h \in Servers :
           WF_vars(_collect_resource_metrics(h) /\ UNCHANGED <<tmvars, wvars, obsvars, fwvars, labvars, convars>>)

\* ------------------------------------------- wait_for_task_completion
\* One task, driven through the TaskManager API while a caller waits for it.

\* create_task for the only task of the run.
SoloCreateTask == task_id_counter = 0 /\ CreateTaskCall

\* wait_for_task_completion is called: start_time = time.time().
\* timeout is None, 0 or positive.
WaitCall ==
    /\ waiter.pc = "none"
    /\ \E task_id \in TaskIds : \E timeout \in {None, 0, WaitTimeout} :
           waiter' = [pc |-> "polling", task_id |-> task_id, timeout |-> timeout,
                      start_time |-> now, polls |-> 0, result |-> FALSE]
    /\ UNCHANGED <<tmvars, rmvars, wvars, obsvars, is_running, live, stopping, labvars, convars>>

\* "if timeout and (time.time() - start_time) > timeout"
TimedOut(timeout, start_time) ==
    /\ timeout # None
    /\ timeout # 0
    /\ now - start_time > timeout

\* One turn of the loop of wait_for_task_completion: get_task (under the
\* lock), then return or sleep.
WaitPoll ==
    LET t == waiter.task_id
    IN  /\ waiter.pc = "polling"
        /\ LockFree
        /\ IF t \notin DOMAIN tasks
           THEN waiter' = [waiter EXCEPT !.pc = "returned", !.result = FALSE]
           ELSE IF tasks[t].status \in {"completed", "failed", "cancelled"}
           THEN waiter' = [waiter EXCEPT !.pc = "returned", !.result = TRUE]
           ELSE IF TimedOut(waiter.timeout, waiter.start_time)
           THEN waiter' = [waiter EXCEPT !.pc = "returned", !.result = FALSE]
           ELSE /\ waiter.polls < MaxPolls
                /\ waiter' = [waiter EXCEPT !.polls = @ + 1]
        /\ UNCHANGED <<tmvars, rmvars, wvars, obsvars, is_running, live, stopping, labvars, convars>>

WaitNext ==
    \/ SoloCreateTask
    \/ SubmitTaskCall
    \/ GetNextTaskCall
    \/ StartTaskCall
    \/ CompleteTaskCall
    \/ FailTaskCall
    \/ FailTaskReturn
    \/ CancelTaskCall
    \/ TimePasses
    \/ WaitCall
    \/ WaitPoll

WaitSpec == Init /\ [][WaitNext]_vars

\* ------------------------------------------------ submit_task, any input
\* TaskManager calls where a dependency list may name any id (its own, or
\* one no task has yet) and submit_task is called with any id.  One
\* priority class, no retries.

CreateAnyTaskCall ==
    \E dependencies \in {{}} \cup {{d} : d \in TaskIds} : \E task_id \in TaskIds :
        /\ create_task("noop",
                       [experiment_type |-> "noop", priority |-> 0,
                        retry_count |-> 0, dependencies |-> dependencies],
                       0, 0, dependencies, task_id)
        /\ Call("create_task", task_id)
        /\ UNCHANGED <<rmvars, wvars, lifecycle_runs, dequeued_ct, fwvars, labvars, convars>>

SubmitAnyTaskCall ==
    \E task_id \in TaskIds : \E result \in BOOLEAN :
        /\ submit_task(task_id, result)
        /\ ret' = <<"submit_task", result, task_id>>
        /\ UNCHANGED <<rmvars, wvars, lifecycle_runs, dequeued_ct, fwvars, labvars, convars>>

SubmitNext ==
    \/ CreateAnyTaskCall
    \/ SubmitAnyTaskCall
    \/ GetNextTaskCall
    \/ StartTaskCall
    \/ CompleteTaskCall
    \/ FailTaskCall
    \/ CancelTaskCall

SubmitSpec == Init /\ [][SubmitNext]_vars

\* ------------------------------------------- Lab.run and the result index
\* Experiment instances (as the workers create them, one after the other or
\* side by side) run phase by phase; their results are stored; the program
\* may be started again over the same results directory.

\* What a call of phase p can do: return True or False (analyze_data and
\* cleanup: return), or raise.
Outcomes(p) ==
    IF p \in {"analyze_data", "cleanup"} THEN {"true", "raise"}
    ELSE {"true", "false", "raise"}

\* Lab.__init__: _create_result.
LabCreate(l) ==
    /\ labs[l].pc = "none"
    /\ IF l = 1 THEN TRUE ELSE labs[l - 1].pc # "none"
    /\ labs' = [labs EXCEPT ![l] = [pc |-> Phases[1],
                                    result |-> _create_result,
                                    statuses |-> <<Status("PENDING")>>,
                                    invoked |-> <<>>]]
    /\ UNCHANGED <<tmvars, rmvars, wvars, obsvars, fwvars, result_index, metadata_file, convars>>

\* Lab.run: the status assignment before phase p, the call of p with outcome
\* o, and what run does with the outcome.  self.result afterwards:
AfterPhase(result, p, o) ==
    LET entered == IF p = "initialize"
                   THEN [result EXCEPT !.status = PhaseStatus(p),
                                       !.start_time = DateTime(now)]
                   ELSE [result EXCEPT !.status = PhaseStatus(p)]
    IN  IF o = "raise" THEN RunExcept(entered, "error")
        ELSE IF p \in CheckedPhases /\ o = "false"
        THEN [entered EXCEPT !.status = Status("FAILED"),
                             !.error_message = FailureMessage(p)]
        ELSE IF p = "analyze_data" THEN [entered EXCEPT !.metrics = "analysis"]
        ELSE IF p = "save_data" /\ ~SaveDataContinues(o = "true")
        THEN [entered EXCEPT !.status = Status("FAILED"),
                             !.error_message = "save_data failed"]
        ELSE IF p = "cleanup"
        THEN [entered EXCEPT !.status = Status("COMPLETED"),
                             !.end_time = DateTime(now)]
        ELSE entered

\* One phase of Lab.run of instance l.
LabRunPhase(l) ==
    LET p == labs[l].pc
    IN  /\ p \in PhaseNames
        /\ \E o \in Outcomes(p) :
            LET result == AfterPhase(labs[l].result, p, o)
                final == result.status[2] \in {"FAILED", "COMPLETED"}
            IN  labs' = [labs EXCEPT
                    ![l].result = result,
                    ![l].pc = IF final THEN "returned" ELSE NextPhase(p),
                    ![l].statuses = IF final
                                    THEN @ \o <<PhaseStatus(p), result.status>>
                                    ELSE Append(@, PhaseStatus(p)),
                    ![l].invoked = Append(@, <<p, o>>)]
        /\ UNCHANGED <<tmvars, rmvars, wvars, obsvars, fwvars, result_index, metadata_file, convars>>

\* ResultManager.store_result of the result run() returned.
store_result(l) ==
    LET result == labs[l].result
        index == [e \in DOMAIN result_index \cup {result.experiment_id} |->
                     IF e = result.experiment_id THEN result ELSE result_index[e]]
    IN  /\ labs[l].pc = "returned"
        /\ result_index' = index
        /\ metadata_file' = _save_result_index(index, metadata_file)
        /\ labs' = [labs EXCEPT ![l].pc = "stored"]
        /\ UNCHANGED <<tmvars, rmvars, wvars, obsvars, fwvars, convars>>

\* The program is started again: ResultManager.__init__ loads metadata.json.
\* (_cleanup_expired_results finds nothing older than the retention time.)
FreshResultManager ==
    /\ \A l \in Labs : labs[l].pc \in {"none", "stored"}
    /\ result_index' = _load_result_index(metadata_file)
    /\ UNCHANGED <<tmvars, rmvars, wvars, obsvars, fwvars, labs, metadata_file, convars>>

LabNext ==
    \/ \E l \in Labs : LabCreate(l)
    \/ \E l \in Labs : LabRunPhase(l)
    \/ \E l \in Labs : store_result(l)
    \/ FreshResultManager
    \/ TimePasses

LabSpec == Init /\ [][LabNext]_vars

\* ------------------------------------------------------- start and stop
\* LabGrid.start and LabGrid.stop called again and again around experiments
\* whose phases all succeed (type "noop", no retry, one priority class).

\* Thread slots: a pool of NumWorkers and one thread that may outlive a stop.
Threads == 1..(NumWorkers + 1)

\* The n free slots the threads of one _start_worker_threads call take.
Launched(n) ==
    LET free == Threads \ live
    IN  {w \in free : Cardinality({v \in free : v < w}) < n}

\* LabGrid.start: a no-op while running; else _start_worker_threads starts
\* worker_count threads unless worker_threads_active is already set, and
\* is_running becomes True.  ret records how many threads it started.
StartCall ==
    /\ ~stopping
    /\ IF is_running
       THEN /\ ret' = <<"start", 0>>
            /\ UNCHANGED <<worker_threads_active, live, is_running>>
       ELSE /\ Cardinality(Threads \ live) >= NumWorkers
            /\ worker_threads_active' = TRUE
            /\ live' = IF worker_threads_active THEN live
                       ELSE live \cup Launched(NumWorkers)
            /\ is_running' = TRUE
            /\ ret' = <<"start", IF worker_threads_active THEN 0 ELSE NumWorkers>>
    /\ UNCHANGED <<pc, wtask, wserver, wresume>>
    /\ UNCHANGED <<tmvars, rmvars, lifecycle_runs, dequeued_ct, stopping, waiter, labvars, convars>>

\* LabGrid.stop up to the joins of _stop_worker_threads: a no-op when not
\* running; else the flag is cleared and the caller waits in join(timeout=5).
StopCall ==
    /\ ~stopping
    /\ IF ~is_running
       THEN /\ ret' = <<"stop", 0>>
            /\ UNCHANGED <<worker_threads_active, stopping>>
       ELSE /\ worker_threads_active' = FALSE
            /\ stopping' = TRUE
            /\ ret' = <<"stop", 1>>
    /\ UNCHANGED <<pc, wtask, wserver, wresume>>
    /\ UNCHANGED <<tmvars, rmvars, lifecycle_runs, dequeued_ct, is_running, live, waiter, labvars, convars>>

\* The rest of LabGrid.stop.  Every join has returned: a worker without a
\* task sleeps 1 s and leaves within the 5 s of its join, a worker inside
\* _execute_task may still be there.  Then _shutdown_components:
\* TaskManager.shutdown empties the queue and clears the task tables,
\* ResourceManager.shutdown stops the monitor and clears server_resources,
\* ResultManager.shutdown saves the result index.
StopReturn ==
    /\ stopping
    /\ LockFree
    /\ \A w \in live : pc[w] # "idle"
    /\ task_queue' = <<>>
    /\ tasks' = <<>>
    /\ running_tasks' = {}
    /\ completed_tasks' = {}
    /\ failed_tasks' = {}
    /\ server_resources' = <<>>
    /\ is_running' = FALSE
    /\ stopping' = FALSE
    /\ UNCHANGED <<max_queue_size, stats, task_id_counter, put_blocked>>
    /\ metadata_file' = _save_result_index(result_index, metadata_file)
    /\ UNCHANGED <<allocation_strategy, now, wvars, obsvars, live, waiter, labs, result_index, convars>>

\* _worker_thread: "while self.worker_threads_active" is false, the thread
\* returns.
WorkerExit(w) ==
    /\ w \in live
    /\ pc[w] = "idle"
    /\ ~worker_threads_active
    /\ live' = live \ {w}
    /\ UNCHANGED <<tmvars, rmvars, wvars, obsvars, is_running, stopping, waiter, labvars, convars>>

\* A worker holds the Task object it dequeued, also after shutdown has
\* cleared self.tasks.  _execute_task for such a task: allocate_server with
\* the priority of the object (0 in these runs).
OrphanAllocate(w) ==
    /\ pc[w] = "allocate"
    /\ wtask[w] \notin DOMAIN tasks
    /\ \E server_name \in Servers \cup {None} :
        /\ allocate_server(0, server_name)
        /\ IF server_name = None
           THEN /\ \E result \in BOOLEAN :
                       fail_task(wtask[w], "no server", result)
                /\ AfterFail(w, "idle")
                /\ UNCHANGED wserver
           ELSE /\ wserver' = [wserver EXCEPT ![w] = server_name]
                /\ pc' = [pc EXCEPT ![w] = "start"]
                /\ UNCHANGED <<tmvars, wresume>>
    /\ UNCHANGED <<worker_threads_active, wtask, obsvars, fwvars, labvars, convars>>

\* _execute_task for such a task: the experiment ("noop") runs and
\* complete_task is called for an id TaskManager no longer knows.
OrphanRun(w) ==
    /\ pc[w] = "run"
    /\ wtask[w] \notin DOMAIN tasks
    /\ lifecycle_runs' = [lifecycle_runs EXCEPT ![wtask[w]] = @ + 1]
    /\ \E result \in BOOLEAN : complete_task(wtask[w], "completed", result)
    /\ pc' = [pc EXCEPT ![w] = "release"]
    /\ UNCHANGED <<worker_threads_active, wtask, wserver, wresume>>
    /\ UNCHANGED <<rmvars, dequeued_ct, ret, fwvars, labvars, convars>>

\* One step of a live worker thread.
RestartStep(w) ==
    \/ WorkerGetTask(w)
    \/ wtask[w] \in DOMAIN tasks /\ WorkerAllocate(w)
    \/ OrphanAllocate(w)
    \/ WorkerStart(w)
    \/ wtask[w] \in DOMAIN tasks /\ WorkerRun(w)
    \/ OrphanRun(w)
    \/ WorkerRelease(w)
    \/ WorkerExit(w)

\* run_experiment of a "noop" experiment.
RestartRunExperiment ==
    run_experiment("noop", [experiment_type |-> "noop", priority |-> 0,
                            retry_count |-> 0, dependencies |-> {}])

\* _monitoring_worker: the thread ResourceManager.__init__ started runs
\* until the shutdown that clears server_resources, and is not started again.
RestartMonitor ==
    \E server_name \in DOMAIN server_resources :
        /\ _collect_resource_metrics(server_name)
        /\ UNCHANGED <<tmvars, wvars, obsvars, fwvars, labvars, convars>>

\* The state after LabGrid.__init__, with the thread slots of this section.
RestartInit ==
    /\ tasks = <<>>
    /\ running_tasks = {}
    /\ completed_tasks = {}
    /\ failed_tasks = {}
    /\ task_queue = <<>>
    /\ max_queue_size \in 1..MaxQueueSize
    /\ stats = [total_created |-> 0, total_completed |-> 0,
                total_failed |-> 0, total_retried |-> 0]
    /\ task_id_counter = 0
    /\ put_blocked = None
    /\ server_resources = _init_server_resources
    /\ allocation_strategy = "round_robin"
    /\ now = 0
    /\ worker_threads_active = FALSE
    /\ pc = [w \in Threads |-> "idle"]
    /\ wtask = [w \in Threads |-> None]
    /\ wserver = [w \in Threads |-> None]
    /\ wresume = [w \in Threads |-> "idle"]
    /\ lifecycle_runs = [t \in TaskIds |-> 0]
    /\ dequeued_ct = [p \in 0..MaxPriority |-> None]
    /\ ret = <<"init">>
    /\ is_running = FALSE
    /\ live = {}
    /\ stopping = FALSE
    /\ waiter = NoWaiter
    /\ labs = [l \in Labs |-> NoLab]
    /\ result_index = <<>>
    /\ metadata_file = <<>>
    /\ monitoring_active = FALSE
    /\ monitoring_thread = None
    /\ monitor = [m \in MonThreads |-> NoMonitor]
    /\ joining = FALSE
    /\ lock_holder = [c \in Components |-> None]
    /\ in_call = "none"
    /\ callbacks = {}
    /\ server_status = [s \in SatServers |-> "idle"]
    /\ exp = [e \in Experiments |-> NoExperiment]

RestartNext ==
    \/ StartCall
    \/ StopCall
    \/ StopReturn
    \/ RestartRunExperiment
    \/ \E w \in live : RestartStep(w)
    \/ RestartMonitor

RestartSpec == RestartInit /\ [][RestartNext]_vars

\* ------------------------------------------------- one monitoring cycle
\* One call of _collect_resource_metrics from _monitoring_worker: every host
\* is probed once; answered is the set of hosts whose probe returned system
\* information.  The other probes returned nothing or raised, which the loop
\* body ignores.

CollectAll(sr, answered) ==
    [h \in DOMAIN sr |->
        IF h \in answered
        THEN [sr[h] EXCEPT !.last_heartbeat = now,
                           !.status = IF @ = "offline" THEN "idle" ELSE @]
        ELSE sr[h]]

MonitoringCycle ==
    \E answered \in SUBSET Servers :
        /\ server_resources' = CollectAll(server_resources, answered)
        /\ Call("_collect_resource_metrics", answered)
        /\ UNCHANGED <<allocation_strategy, now>>
        /\ UNCHANGED <<tmvars, wvars, lifecycle_runs, dequeued_ct, fwvars, labvars, convars>>

CycleNext ==
    \/ AllocateServerCall
    \/ ReleaseServerCall
    \/ MonitoringCycle
    \/ TimePasses

CycleSpec == Init /\ [][CycleNext]_vars

\* ------------------------------------------- start and stop of monitoring
\* The monitoring threads step by step: the test of monitoring_active at the
\* head of the loop, one probe per host outside the lock, the update of the
\* host under the lock when the probe answered, the sleep between two passes.

\* ResourceManager.start_monitoring
StartMonitoring ==
    /\ ~joining
    /\ IF monitoring_active
       THEN /\ Call("start_monitoring", None)
            /\ UNCHANGED <<monitoring_active, monitoring_thread, monitor>>
       ELSE \E m \in MonThreads :
                /\ monitor[m].pc = "none"
                /\ \A k \in MonThreads : k < m => monitor[k].pc # "none"
                /\ monitoring_active' = TRUE
                /\ monitoring_thread' = m
                /\ monitor' = [monitor EXCEPT ![m] = [pc |-> "loop", host |-> 0]]
                /\ Call("start_monitoring", m)
    /\ UNCHANGED <<joining, lockvars, satvars>>
    /\ UNCHANGED <<tmvars, rmvars, wvars, lifecycle_runs, dequeued_ct, fwvars, labvars>>

\* ResourceManager.stop_monitoring up to monitoring_thread.join(timeout=5)
StopMonitoring ==
    /\ ~joining
    /\ IF ~monitoring_active
       THEN /\ Call("stop_monitoring", None)
            /\ UNCHANGED <<monitoring_active, joining>>
       ELSE /\ monitoring_active' = FALSE
            /\ joining' = (monitoring_thread # None)
            /\ Call("stop_monitoring", monitoring_thread)
    /\ UNCHANGED <<monitoring_thread, monitor, lockvars, satvars>>
    /\ UNCHANGED <<tmvars, rmvars, wvars, lifecycle_runs, dequeued_ct, fwvars, labvars>>

\* join(timeout=5) returns: the thread has exited, or the 5 seconds are over
\* while it is inside a probe, waits for the lock or sleeps its 30 seconds.
JoinReturns ==
    /\ joining
    /\ monitor[monitoring_thread].pc \in {"exited", "probe", "commit", "sleep"}
    /\ joining' = FALSE
    /\ Call("join", monitor[monitoring_thread].pc)
    /\ UNCHANGED <<monitoring_active, monitoring_thread, monitor, lockvars, satvars>>
    /\ UNCHANGED <<tmvars, rmvars, wvars, lifecycle_runs, dequeued_ct, fwvars, labvars>>

\* The position after the probe of monitor[m].host: the next host of the
\* pass, or time.sleep(self.monitoring_interval).
AfterProbe(m) ==
    IF monitor[m].host < NumServers
    THEN [pc |-> "probe", host |-> monitor[m].host + 1]
    ELSE [pc |-> "sleep", host |-> 0]

\* _monitoring_worker: "while self.monitoring_active"
MonitorLoop(m) ==
    /\ monitor[m].pc = "loop"
    /\ monitor' = [monitor EXCEPT ![m] =
           IF monitoring_active THEN [pc |-> "probe", host |-> 1]
                                ELSE [pc |-> "exited", host |-> 0]]
    /\ UNCHANGED <<monitoring_active, monitoring_thread, joining, lockvars, satvars>>
    /\ UNCHANGED <<tmvars, rmvars, wvars, obsvars, fwvars, labvars>>

\* labx.get_system_info(server_name) returns: with system information, or
\* with nothing or an exception.
ProbeReturns(m) ==
    /\ monitor[m].pc = "probe"
    /\ \E answered \in BOOLEAN :
           monitor' = [monitor EXCEPT ![m] =
               IF answered THEN [@ EXCEPT !.pc = "commit"] ELSE AfterProbe(m)]
    /\ UNCHANGED <<monitoring_active, monitoring_thread, joining, lockvars, satvars>>
    /\ UNCHANGED <<tmvars, rmvars, wvars, obsvars, fwvars, labvars>>

\* "with self.lock:" of _collect_resource_metrics is entered
ProbeLock(m) ==
    /\ monitor[m].pc = "commit"
    /\ lock_holder["resource_manager"] = None
    /\ lock_holder' = [lock_holder EXCEPT !["resource_manager"] = m]
    /\ monitor' = [monitor EXCEPT ![m].pc = "locked"]
    /\ UNCHANGED <<monitoring_active, monitoring_thread, joining, in_call,
                   callbacks, satvars>>
    /\ UNCHANGED <<tmvars, rmvars, wvars, obsvars, fwvars, labvars>>

\* the body of that "with self.lock:", and the lock is left
ProbeCommit(m) ==
    /\ monitor[m].pc = "locked"
    /\ _collect_resource_metrics(monitor[m].host)
    /\ lock_holder' = [lock_holder EXCEPT !["resource_manager"] = None]
    /\ monitor' = [monitor EXCEPT ![m] = AfterProbe(m)]
    /\ UNCHANGED <<monitoring_active, monitoring_thread, joining, in_call,
                   callbacks, satvars>>
    /\ UNCHANGED <<tmvars, wvars, obsvars, fwvars, labvars>>

\* time.sleep(self.monitoring_interval) is over
MonitorWakes(m) ==
    /\ monitor[m].pc = "sleep"
    /\ monitor' = [monitor EXCEPT ![m].pc = "loop"]
    /\ UNCHANGED <<monitoring_active, monitoring_thread, joining, lockvars, satvars>>
    /\ UNCHANGED <<tmvars, rmvars, wvars, obsvars, fwvars, labvars>>

MonitorStep(m) ==
    \/ MonitorLoop(m)
    \/ ProbeReturns(m)
    \/ ProbeLock(m)
    \/ ProbeCommit(m)
    \/ MonitorWakes(m)

MonNext ==
    \/ StartMonitoring
    \/ StopMonitoring
    \/ JoinReturns
    \/ \E m \in MonThreads : MonitorStep(m)
    \/ TimePasses

MonSpec == Init /\ [][MonNext]_vars

\* ------------------------------------------- locks and calls that leave
\* One caller thread uses the task manager and the resource manager while a
\* monitoring thread runs.  A method that calls out of its component while
\* it is inside "with self.lock" takes two steps: up to the call, with the
\* lock held, and the return of the call, which leaves the lock.

\* No method of the caller thread is in progress.
CallerIdle == in_call = "none"

\* create_task(..., callback=callback), once
CreateTaskWithCallback ==
    \E config \in Configs({}) : \E callback \in BOOLEAN :
        /\ CallerIdle
        /\ task_id_counter = 0
        /\ config.experiment_type = "noop"
        /\ config.priority = 0
        /\ config.retry_count = 0
        /\ create_task(config.experiment_type, config, config.priority,
                       config.retry_count, config.dependencies, 1)
        /\ callbacks' = IF callback THEN callbacks \cup {1} ELSE callbacks
        /\ Call("create_task", 1)
        /\ UNCHANGED <<lock_holder, in_call, monvars, satvars>>
        /\ UNCHANGED <<rmvars, wvars, lifecycle_runs, dequeued_ct, fwvars, labvars>>

\* submit_task, get_next_task and start_task call nothing outside.
CallerTaskStep ==
    /\ CallerIdle
    /\ \/ SubmitTaskCall
       \/ GetNextTaskCall
       \/ StartTaskCall

\* complete_task up to "task.callback(task)", or to its end without callback
CompleteTaskEnters ==
    \E task_id \in DOMAIN tasks : \E result \in BOOLEAN :
        /\ CallerIdle
        /\ lock_holder["task_manager"] = None
        /\ complete_task(task_id, "completed", result)
        /\ Call("complete_task", result)
        /\ IF result /\ task_id \in callbacks
           THEN /\ lock_holder' = [lock_holder EXCEPT !["task_manager"] = CallerThread]
                /\ in_call' = "callback"
           ELSE UNCHANGED <<lock_holder, in_call>>
        /\ UNCHANGED <<callbacks, monvars, satvars>>
        /\ UNCHANGED <<rmvars, wvars, lifecycle_runs, dequeued_ct, fwvars, labvars>>

\* allocate_server up to labx.update_server_task_count, or to "return None"
AllocateServerEnters ==
    \E task_priority \in {0, HighPriority + 1} :
    \E result \in Servers \cup {None} :
        /\ CallerIdle
        /\ lock_holder["resource_manager"] = None
        /\ allocate_server(task_priority, result)
        /\ Call("allocate_server", result)
        /\ IF result # None
           THEN /\ lock_holder' = [lock_holder EXCEPT !["resource_manager"] = CallerThread]
                /\ in_call' = "labx.update_server_task_count"
           ELSE UNCHANGED <<lock_holder, in_call>>
        /\ UNCHANGED <<callbacks, monvars, satvars>>
        /\ UNCHANGED <<tmvars, wvars, lifecycle_runs, dequeued_ct, fwvars, labvars>>

\* release_server up to labx.update_server_task_count
ReleaseServerEnters ==
    \E server_name \in Servers :
        /\ CallerIdle
        /\ lock_holder["resource_manager"] = None
        /\ release_server(server_name)
        /\ Call("release_server", server_name)
        /\ lock_holder' = [lock_holder EXCEPT !["resource_manager"] = CallerThread]
        /\ in_call' = "labx.update_server_task_count"
        /\ UNCHANGED <<callbacks, monvars, satvars>>
        /\ UNCHANGED <<tmvars, wvars, lifecycle_runs, dequeued_ct, fwvars, labvars>>

\* The outside call returns, the method ends and its "with self.lock" is left.
OutsideCallReturns ==
    /\ ~CallerIdle
    /\ in_call' = "none"
    /\ lock_holder' = [c \in Components |->
           IF lock_holder[c] = CallerThread THEN None ELSE lock_holder[c]]
    /\ UNCHANGED <<callbacks, monvars, satvars>>
    /\ UNCHANGED <<tmvars, rmvars, wvars, obsvars, fwvars, labvars>>

LockNext ==
    \/ CreateTaskWithCallback
    \/ CallerTaskStep
    \/ CompleteTaskEnters
    \/ AllocateServerEnters
    \/ ReleaseServerEnters
    \/ OutsideCallReturns
    \/ StartMonitoring
    \/ \E m \in MonThreads : MonitorStep(m)

LockSpec == Init /\ [][LockNext]_vars

\* --------------------------------------------------- clear_completed_tasks
\* The task manager call by call, with the clock and clear_completed_tasks:
\* tasks are created with or without a dependency, submitted, started,
\* completed and cleared.  The clock counts minutes.

\* TaskManager.clear_completed_tasks
clear_completed_tasks(max_age_hours) ==
    LET cutoff_time == now - max_age_hours * 60
        to_remove == {task_id \in completed_tasks :
                         /\ tasks[task_id].end_time # None
                         /\ tasks[task_id].end_time < cutoff_time}
    IN  /\ LockFree
        /\ completed_tasks' = completed_tasks \ to_remove
        /\ tasks' = [task_id \in DOMAIN tasks \ to_remove |-> tasks[task_id]]
        /\ UNCHANGED <<running_tasks, failed_tasks, task_queue, max_queue_size,
                       stats, task_id_counter, put_blocked>>

ClearCompletedTasksCall ==
    \E max_age_hours \in {0, 24} :
        /\ clear_completed_tasks(max_age_hours)
        /\ Call("clear_completed_tasks", max_age_hours)
        /\ UNCHANGED <<rmvars, wvars, lifecycle_runs, dequeued_ct, fwvars, labvars, convars>>

ClearNext ==
    \/ CreateAnyTaskCall
    \/ SubmitAnyTaskCall
    \/ StartTaskCall
    \/ CompleteTaskCall
    \/ ClearCompletedTasksCall
    \/ TimePasses

ClearSpec == Init /\ [][ClearNext]_vars

\* ------------------------------------------------------- SATuSGHManager
\* The pool's threads run _run_single_experiment side by side, one call per
\* experiment task.  The steps between the allocation of the server and its
\* release (upload, execution, download) are one position, "holding".

\* SATuSGHManager.get_idle_server: the first idle server in the order of
\* self.server_status, or None.
get_idle_server(status) ==
    IF \E name \in DOMAIN status : status[name] = "idle"
    THEN Min({name \in DOMAIN status : status[name] = "idle"})
    ELSE None

\* SATuSGHManager.release_server, on the status table
sat_release_server(status, server_name) ==
    IF server_name \in DOMAIN status
    THEN [status EXCEPT ![server_name] = "idle"]
    ELSE status

\* _run_single_experiment is called and has built the experiment's files.
ExperimentBegins(e) ==
    /\ exp[e].pc = "none"
    /\ exp' = [exp EXCEPT ![e].pc = "wait"]
    /\ UNCHANGED <<server_status, monvars, lockvars>>
    /\ UNCHANGED <<tmvars, rmvars, wvars, obsvars, fwvars, labvars>>

\* _wait_for_idle_server returns a server: it is busy now, and
\* task.server_name is set.  Without an idle server, the call sleeps.
ServerSelected(e) ==
    LET selected_server == get_idle_server(server_status)
    IN  /\ exp[e].pc = "wait"
        /\ selected_server # None
        /\ server_status' = [server_status EXCEPT ![selected_server] = "busy"]
        /\ exp' = [exp EXCEPT ![e] = [pc |-> "holding",
                                      server_name |-> selected_server]]
        /\ UNCHANGED <<monvars, lockvars>>
        /\ UNCHANGED <<tmvars, rmvars, wvars, obsvars, fwvars, labvars>>

\* Upload, execution or download fails or raises: the server is released
\* and the call returns False.
StepFails(e) ==
    /\ exp[e].pc = "holding"
    /\ server_status' = sat_release_server(server_status, exp[e].server_name)
    /\ exp' = [exp EXCEPT ![e].pc = "done"]
    /\ UNCHANGED <<monvars, lockvars>>
    /\ UNCHANGED <<tmvars, rmvars, wvars, obsvars, fwvars, labvars>>

\* Upload, execution and download succeed: "7. release the server".
ServerReleased(e) ==
    /\ exp[e].pc = "holding"
    /\ server_status' = sat_release_server(server_status, exp[e].server_name)
    /\ exp' = [exp EXCEPT ![e].pc = "analyze"]
    /\ UNCHANGED <<monvars, lockvars>>
    /\ UNCHANGED <<tmvars, rmvars, wvars, obsvars, fwvars, labvars>>

\* analyze_labbook_output returns and the call returns True, or it raises:
\* the handler finds task.server_name set and releases that server.
AnalysisEnds(e) ==
    /\ exp[e].pc = "analyze"
    /\ \E raised \in BOOLEAN :
           server_status' =
               IF raised /\ exp[e].server_name # None
               THEN sat_release_server(server_status, exp[e].server_name)
               ELSE server_status
    /\ exp' = [exp EXCEPT ![e].pc = "done"]
    /\ UNCHANGED <<monvars, lockvars>>
    /\ UNCHANGED <<tmvars, rmvars, wvars, obsvars, fwvars, labvars>>

_run_single_experiment(e) ==
    \/ ExperimentBegins(e)
    \/ ServerSelected(e)
    \/ StepFails(e)
    \/ ServerReleased(e)
    \/ AnalysisEnds(e)

SatNext == \E e \in Experiments : _run_single_experiment(e)

SatSpec == Init /\ [][SatNext]_vars

\* ================================================================== claims

Terminal == {"completed", "failed", "cancelled"}

RECURSIVE SumTasks(_, _)
SumTasks(sr, S) ==
    IF S = {} THEN 0
    ELSE LET h == CHOOSE x \in S : TRUE
         IN  sr[h].current_tasks + SumTasks(sr, S \ {h})

TotalCurrentTasks == SumTasks(server_resources, Servers)

RunningCount == Cardinality({t \in DOMAIN tasks : tasks[t].status = "running"})

\* No worker is between get_next_task and the end of _execute_task.
NoWorkerExecuting == \A w \in Workers : pc[w] = "idle"

\* C1 as stated: in every reachable state the sum over all hosts of the
\* current task count equals the number of tasks whose status is running.
C1_SumEqualsRunning == TotalCurrentTasks = RunningCount

\* C1 amended: whenever no worker is executing a task, the sum over all hosts
\* of the current task count equals the number of tasks whose status is running.
C1_SumEqualsRunningWhenIdle ==
    NoWorkerExecuting => TotalCurrentTasks = RunningCount

\* A task ran to completion on a host, another one was cancelled, and the
\* workers are idle again.
C1_Witness ==
    /\ NoWorkerExecuting
    /\ \E t \in DOMAIN tasks :
           tasks[t].status = "completed" /\ tasks[t].assigned_server # None
    /\ \E t \in DOMAIN tasks : tasks[t].status = "cancelled"

\* C2: for every host, in every state reached by any interleaving of
\* allocate-server, release-server and monitoring updates,
\* 0 <= current task count <= max concurrent tasks.
C2_CountWithinBounds ==
    \A h \in Servers :
        /\ 0 <= server_resources[h].current_tasks
        /\ server_resources[h].current_tasks <= server_resources[h].max_tasks

\* allocate_server has just filled a host that takes more than one task.
C2_Witness ==
    /\ ret[1] = "allocate_server"
    /\ ret[2] # None
    /\ \E h \in Servers :
           /\ ret[2] = h
           /\ server_resources[h].max_tasks > 1
           /\ server_resources[h].current_tasks = server_resources[h].max_tasks

\* C3: once a task's status is completed, failed or cancelled, no later
\* operation changes its status again.
C3_TerminalStatusIsFinal ==
    [][\A t \in DOMAIN tasks :
          tasks[t].status \in Terminal => tasks'[t].status = tasks[t].status]_vars

\* C4: when a worker has dequeued a pending task and allocate-server returns
\* absent, the task stays pending with its retry counter unchanged and is
\* back in the queue.
C4_NoHostKeepsTaskQueued ==
    [][\A w \in Workers :
          (/\ pc[w] = "allocate"
           /\ pc'[w] \in {"idle", "blocked"}
           /\ tasks[wtask[w]].status = "pending")
          => /\ tasks'[wtask[w]].status = "pending"
             /\ tasks'[wtask[w]].retry_count = tasks[wtask[w]].retry_count
             /\ \E i \in 1..Len(task_queue') : task_queue'[i][3] = wtask[w]]_vars

\* Worker w holds an allocation of host h: allocate_server has returned h to
\* it and it has not yet called release_server.
Holds(w, h) ==
    /\ wserver[w] = h
    /\ \/ pc[w] \in {"start", "run", "release", "finally"}
       \/ pc[w] = "blocked" /\ wresume[w] = "release"

\* C5: every successful allocate-server of a worker is matched by exactly one
\* release-server of the same host on every path of _execute_task: the
\* current task count of a host is the number of workers that hold it, and
\* it is 0 whenever no worker is executing a task.
C5_AllocationsReleased ==
    \A h \in Servers :
        /\ server_resources[h].current_tasks =
               Cardinality({w \in Workers : Holds(w, h)})
        /\ NoWorkerExecuting => server_resources[h].current_tasks = 0

\* Host 2 has been allocated and released: by a worker whose start_task was
\* rejected (its task is cancelled), while another task has failed for good
\* (through a retry or not), and no worker is executing.
C5_Witness ==
    /\ NoWorkerExecuting
    /\ \E w \in Workers :
           /\ wserver[w] # None
           /\ wtask[w] # None
           /\ tasks[wtask[w]].status = "cancelled"
           /\ lifecycle_runs[wtask[w]] = 0
    /\ \E t \in DOMAIN tasks : tasks[t].status = "failed"

\* C6: with the framework started and the hosts answering probes, every
\* queued task of an experiment type whose phases all succeed eventually
\* reaches status completed.
C6_AcceptedTaskCompletes ==
    \A t \in TaskIds :
        (t \in DOMAIN tasks /\ tasks[t].experiment_type = "noop" /\ InQueue(t))
            ~> (t \in DOMAIN tasks /\ tasks[t].status = "completed")

\* C7: a task with max-retries n whose lifecycle fails on every run ends in
\* status failed after exactly n+1 lifecycle runs, with the retried counter
\* increased by exactly n and an error message; no retry is consumed without
\* the lifecycle having been run.
C7_RetriesMatchRuns ==
    \A t \in DOMAIN tasks :
        tasks[t].experiment_type = "failing" =>
            /\ tasks[t].retry_count <= lifecycle_runs[t]
            /\ tasks[t].status = "failed" =>
                   /\ lifecycle_runs[t] = tasks[t].max_retries + 1
                   /\ tasks[t].retry_count = tasks[t].max_retries
                   /\ tasks[t].error_message # NoneStr

\* A get_next_task call has just returned.
GetNextTaskReturned ==
    /\ ret'[1] = "get_next_task"
    /\ ret' # ret \/ task_queue' # task_queue

\* The queue q without one occurrence of entry e.
RECURSIVE WithoutOne(_, _)
WithoutOne(q, e) ==
    IF q = <<>> THEN <<>>
    ELSE IF Head(q) = e THEN Tail(q)
    ELSE <<Head(q)>> \o WithoutOne(Tail(q), e)

\* C8: get-next-task returns absent iff the queue is empty; otherwise it
\* removes and returns a queued task of the highest priority and, among
\* those, of the earliest creation timestamp.
C8_GetNextTaskOrder ==
    [][GetNextTaskReturned =>
          /\ (ret'[2] = None) <=> (task_queue = <<>>)
          /\ ret'[2] = None => task_queue' = task_queue
          /\ ret'[2] # None =>
                /\ \E i \in 1..Len(task_queue) : task_queue[i][3] = ret'[2]
                /\ \A i \in 1..Len(task_queue) :
                       LET other == tasks[task_queue[i][3]]
                           got == tasks[ret'[2]]
                       IN  /\ other.priority <= got.priority
                           /\ other.priority = got.priority =>
                                  got.created_time <= other.created_time
                /\ task_queue' = WithoutOne(task_queue, QueueEntry(tasks, ret'[2]))]_vars

\* get_next_task has returned the high-priority task 2 although task 1, of
\* lower priority, was created earlier and is still queued.
C8_Witness ==
    /\ ret = <<"get_next_task", 2>>
    /\ 2 \in DOMAIN tasks
    /\ tasks[2].priority > tasks[1].priority
    /\ InQueue(1)

\* C9 as stated: for every two dequeues T1 before T2 of a whole execution
\* with T1.priority = T2.priority, T1.creation_time <= T2.creation_time.
C9_DequeuesOrderedByCreation ==
    [][(GetNextTaskReturned /\ ret'[2] # None) =>
          dequeued_ct[tasks[ret'[2]].priority] <= tasks[ret'[2]].created_time]_vars

\* C9 amended: for every two dequeues T1 before T2 with T1.priority =
\* T2.priority such that T2 was in the queue when T1 was dequeued,
\* T1.creation_time <= T2.creation_time.
C9_DequeuesOrderedAmongQueued ==
    [][(GetNextTaskReturned /\ ret'[2] # None) =>
          \A i \in 1..Len(task_queue') :
              tasks[task_queue'[i][3]].priority = tasks[ret'[2]].priority =>
                  tasks[ret'[2]].created_time <= tasks[task_queue'[i][3]].created_time]_vars

\* Task 1 was dequeued ahead of the equally ranked task 2, which was submitted
\* first and is still queued; task 1 is a retry re-entering the queue.
C9_Witness ==
    /\ ret = <<"get_next_task", 1>>
    /\ 2 \in DOMAIN tasks
    /\ tasks[1].priority = tasks[2].priority
    /\ tasks[1].retry_count > 0
    /\ InQueue(2)

\* C10: a task submitted with run-experiment whose experiment-config lists a
\* dependency never has status running while that dependency is not completed.
C10_DependencyGating ==
    \A q \in DOMAIN tasks :
        tasks[q].status = "running" =>
            \A p \in tasks[q].config.dependencies :
                tasks[p].status = "completed"

\* A cancel_task call returned True for task t while its status was `status`
\* (the latest successful cancel_task call of the run).
CancelledFrom(t, status) ==
    /\ Len(ret) = 3
    /\ ret[1] = "cancel_task"
    /\ ret[2] = t
    /\ ret[3] = status

\* C11: after cancel-task has returned true for a running task, the lifecycle
\* runner starts no further phase of its experiment other than cleanup, and
\* the task's status stays cancelled.
C11_CancelHonoured ==
    [][\A t \in DOMAIN tasks :
          CancelledFrom(t, "running") =>
              /\ tasks'[t].status = "cancelled"
              /\ \A w \in Workers :
                     (wtask[w] = t /\ pc[w] \in PhaseNames \ {"cleanup"})
                         => pc'[w] = pc[w]]_vars

\* C12: a task cancelled while its status was pending never has status
\* running afterwards, and no worker runs a lifecycle phase for it.
C12_PendingCancelNeverRuns ==
    \A t \in DOMAIN tasks :
        CancelledFrom(t, "pending") =>
            /\ tasks[t].status # "running"
            /\ \A w \in Workers :
                   wtask[w] = t =>
                       pc[w] \notin PhaseNames \cup {"run", "hung", "store_completed",
                                                     "store_failed"}

\* The error messages the engine passes to fail_task: none tells a timeout.
EngineErrors == {"no server", "no experiment", "phase failed", "exception"}

\* C13: every running task whose elapsed running time exceeds its configured
\* timeout is eventually marked failed with a timeout error message by the
\* worker, even if the current lifecycle phase never returns (unless a caller
\* cancels it first).
C13_TimeoutFailsTask ==
    \A t \in TaskIds :
        (/\ t \in DOMAIN tasks
         /\ tasks[t].status = "running"
         /\ now - tasks[t].start_time > ConfigTimeout)
            ~> (/\ t \in DOMAIN tasks
                /\ \/ tasks[t].status = "cancelled"
                   \/ /\ tasks[t].status = "failed"
                      /\ tasks[t].error_message \notin EngineErrors \cup {NoneStr})

\* C14: for every task whose status is failed, get-experiment-result returns
\* a result (not absent), and that result carries a failure status.
C14_FailedTaskHasResult ==
    \A t \in DOMAIN tasks :
        tasks[t].status = "failed" =>
            /\ get_experiment_result(t) # NoneStr
            /\ get_experiment_result(t) = "failed"

\* C15: wait-for returns true iff the task has reached a terminal status,
\* and a turn of its loop made after the terminal transition, or after the
\* timeout has expired, returns -- for every timeout value, 0 included.
C15_WaitReturns ==
    [][(waiter.pc = "polling" /\ waiter' # waiter) =>
          LET t == waiter.task_id
              terminal == t \in DOMAIN tasks /\ tasks[t].status \in Terminal
              expired == /\ waiter.timeout # None
                         /\ now - waiter.start_time > waiter.timeout
          IN  /\ waiter'.pc = "returned" => (waiter'.result <=> terminal)
              /\ (terminal \/ expired) => waiter'.pc = "returned"]_vars

\* A submit_task call has just returned.
SubmitTaskReturned ==
    /\ ret'[1] = "submit_task"
    /\ ret' # ret \/ task_queue' # task_queue

\* C17: the queue never holds more than max_queue_size tasks; submit-task on
\* a full queue returns false and leaves queue and tasks unchanged; and the
\* submit-task that follows a successful get-next-task returns true for a
\* task whose dependencies are satisfied.
C17_QueueCapacity ==
    [][/\ Len(task_queue') <= max_queue_size
       /\ (SubmitTaskReturned /\ Len(task_queue) >= max_queue_size) =>
              /\ ret'[2] = FALSE
              /\ task_queue' = task_queue
              /\ tasks' = tasks
       /\ (/\ SubmitTaskReturned
           /\ ret[1] = "get_next_task"
           /\ ret[2] # None
           /\ _check_dependencies(tasks, tasks[ret'[3]])) =>
              /\ ret'[2] = TRUE
              /\ Len(task_queue') = Len(task_queue) + 1]_vars

\* A submit_task was refused on a full queue holding MaxQueueSize tasks, a
\* get_next_task took one out, and the submit_task that followed was accepted
\* and filled the queue again.
C17_Witness ==
    /\ ret[1] = "submit_task"
    /\ ret[2] = TRUE
    /\ max_queue_size = MaxQueueSize
    /\ Len(task_queue) = max_queue_size
    /\ \E p \in 0..MaxPriority : dequeued_ct[p] # None

\* C16: while the framework is not running (before the first start, or
\* after a stop) no call creates a task or enqueues one: run-experiment
\* fails instead.
C16_NoTaskWhileNotRunning ==
    [][~is_running =>
          /\ task_id_counter' = task_id_counter
          /\ DOMAIN tasks' \subseteq DOMAIN tasks
          /\ Len(task_queue') <= Len(task_queue)]_vars

\* C18: the worker pool has a fixed size: never more than W = NumWorkers
\* worker threads are alive, a start while running launches none, and a
\* start after a stop that left a worker inside a task does not bring the
\* number above W.
C18_PoolSizeFixed ==
    [][/\ Cardinality(live') <= NumWorkers
       /\ is_running => live' \subseteq live]_vars

\* C19: restart law: whenever the framework is running (after one start or
\* after start, stop, start) its observable state is that of a single start:
\* the host table holds every configured host and the pool has W workers.
C19_RestartLaw ==
    (is_running /\ ~stopping) =>
        /\ DOMAIN server_resources = Servers
        /\ Cardinality(live) = NumWorkers

\* C20: shutdown drains the queue: a worker thread ends only when the queue
\* is empty, and a task leaves the queue only by a worker that dequeues it to
\* execute it; stop discards no queued task.
C20_ShutdownDrainsQueue ==
    [][/\ \A w \in Threads : (w \in live /\ w \notin live') => task_queue = <<>>
       /\ \A t \in TaskIds :
              (InQueue(t) /\ ~InQueue(t)') =>
                  \E w \in live : /\ pc[w] = "idle"
                                  /\ pc'[w] = "allocate"
                                  /\ wtask'[w] = t]_vars

\* An allocate_server call has just returned.
AllocateServerReturned ==
    /\ ret'[1] = "allocate_server"
    /\ ret' # ret \/ server_resources' # server_resources

\* Host h may be allocated: not offline or in error, below its maximum, and
\* heard from within the last 5 minutes.
Eligible(h) ==
    /\ server_resources[h].status \notin {"offline", "error"}
    /\ server_resources[h].current_tasks < server_resources[h].max_tasks
    /\ server_resources[h].last_heartbeat # None
    /\ now - server_resources[h].last_heartbeat <= HeartbeatTimeout

\* C21: after any sequence of allocate-server, release-server and monitoring
\* steps, allocate-server returns only a host that is not offline or in
\* error, is below its maximum and has a heartbeat within the last 5 minutes
\* (a host never heard from has none); it returns absent iff there is no
\* such host.
C21_AllocatesOnlyEligibleHost ==
    [][AllocateServerReturned =>
          /\ ret'[2] # None => Eligible(ret'[2])
          /\ ret'[2] = None <=> ~(\E h \in Servers : Eligible(h))]_vars

\* C25: in every reachable state every task, whatever its status, has
\* retry_count <= max_retries, under any interleaving of fail-task calls.
C25_RetryCountBounded ==
    \A t \in DOMAIN tasks : tasks[t].retry_count <= tasks[t].max_retries

\* A task has used up its retries and has been failed again.
C25_Witness ==
    \E t \in DOMAIN tasks :
        /\ tasks[t].max_retries > 0
        /\ tasks[t].retry_count = tasks[t].max_retries
        /\ tasks[t].status = "failed"

\* C26: every task in a terminal status whose start time is set has an end
\* time, and the end time is not before the start time.
C26_TerminalHasEndTime ==
    \A t \in DOMAIN tasks :
        (tasks[t].status \in Terminal /\ tasks[t].start_time # None) =>
            /\ tasks[t].end_time # None
            /\ tasks[t].end_time >= tasks[t].start_time

\* A fail_task call has just run from entry to return without waiting.
FailTaskReturned ==
    /\ ret'[1] = "fail_task"
    /\ put_blocked = None
    /\ put_blocked' = None
    /\ ret' # ret \/ tmvars' # tmvars

\* How often task t is in queue q.
TimesQueued(q, t) == Cardinality({i \in 1..Len(q) : q[i][3] = t})

\* C27: fail-task on a running task with retries left increases the retry
\* counter by one, clears start time, end time and assigned host, makes the
\* task pending, leaves it in the queue exactly once and counts one retry;
\* without retries left it makes the task failed, records error message and
\* end time, puts it in failed-tasks and counts one failure.  On a task whose
\* status is not running it returns false and changes nothing.
C27_FailTaskBehaviour ==
    [][FailTaskReturned =>
          LET t == ret'[3]
              old == tasks[t]
              new == tasks'[t]
          IN  IF old.status = "running" /\ old.retry_count < old.max_retries
              THEN /\ ret'[2] = TRUE
                   /\ new.retry_count = old.retry_count + 1
                   /\ new.start_time = None
                   /\ new.end_time = None
                   /\ new.assigned_server = None
                   /\ new.status = "pending"
                   /\ TimesQueued(task_queue', t) = 1
                   /\ stats'.total_retried = stats.total_retried + 1
              ELSE IF old.status = "running"
              THEN /\ ret'[2] = TRUE
                   /\ new.status = "failed"
                   /\ new.error_message = "failed"
                   /\ new.end_time = now
                   /\ t \in failed_tasks'
                   /\ stats'.total_failed = stats.total_failed + 1
              ELSE /\ ret'[2] = FALSE
                   /\ tmvars' = tmvars]_vars

\* C28: submit-task returns false and leaves the queue unchanged when the
\* task id is unknown or a task of its dependency list is missing or not
\* completed; it inserts the task only when every dependency is completed at
\* the time of the call.
C28_SubmitChecksDependencies ==
    [][SubmitTaskReturned =>
          LET t == ret'[3]
              ready == /\ t \in DOMAIN tasks
                       /\ \A d \in tasks[t].dependencies :
                              /\ d \in DOMAIN tasks
                              /\ tasks[d].status = "completed"
          IN  /\ ~ready => (ret'[2] = FALSE /\ task_queue' = task_queue)
              /\ task_queue' # task_queue =>
                     /\ ready
                     /\ ret'[2] = TRUE
                     /\ TimesQueued(task_queue', t) = TimesQueued(task_queue, t) + 1
                     /\ Len(task_queue') = Len(task_queue) + 1]_vars

\* submit_task has just accepted a task that depends on another task, which
\* has completed.
C28_Witness ==
    /\ ret[1] = "submit_task"
    /\ ret[2] = TRUE
    /\ \E d \in DOMAIN tasks :
           /\ tasks[ret[3]].dependencies = {d}
           /\ d # ret[3]
           /\ tasks[d].status = "completed"

\* C22: distinct experiment instances have distinct experiment ids, so
\* store-result of one run never replaces the stored result of another run.
C22_ExperimentIdsDistinct ==
    [][/\ \A k, l \in Labs :
              (k # l /\ labs'[k].pc # "none" /\ labs'[l].pc # "none") =>
                  labs'[k].result.experiment_id # labs'[l].result.experiment_id
       /\ \A l \in Labs :
              (labs[l].pc = "returned" /\ labs'[l].pc = "stored") =>
                  labs[l].result.experiment_id \notin DOMAIN result_index]_vars

\* Timestamps a and b are the same instant, whether datetime or string.
SameInstant(a, b) ==
    IF a = PyNone \/ b = PyNone THEN a = b ELSE a[2] = b[2]

\* The loaded entry e stands for the result r: same experiment id, the
\* status of r (as the member or as its value), same timestamps up to their
\* representation, same metrics and error message.
RoundTripEqual(e, r) ==
    /\ e.experiment_id = r.experiment_id
    /\ e.status \in {r.status, <<"int", StatusValue(r.status[2])>>}
    /\ SameInstant(e.start_time, r.start_time)
    /\ SameInstant(e.end_time, r.end_time)
    /\ e.metrics = r.metrics
    /\ e.error_message = r.error_message

\* C23: persistence round trip: once store-result has stored r, a fresh
\* result manager that loads metadata.json has an entry for r's experiment
\* id that equals r up to timestamp normalization.
C23_StoredResultRoundTrips ==
    [][\A l \in Labs :
           (labs[l].pc = "returned" /\ labs'[l].pc = "stored") =>
               LET r == labs[l].result
                   loaded == _load_result_index(metadata_file')
               IN  /\ r.experiment_id \in DOMAIN loaded
                   /\ RoundTripEqual(loaded[r.experiment_id], r)]_vars

\* Phase p of instance l was called and did o.
Did(l, p, o) ==
    \E i \in 1..Len(labs[l].invoked) : labs[l].invoked[i] = <<p, o>>

\* initialize, execute and collect_data returned True and analyze_data
\* returned.
AnalysisDone(l) ==
    /\ Did(l, "initialize", "true")
    /\ Did(l, "execute", "true")
    /\ Did(l, "collect_data", "true")
    /\ Did(l, "analyze_data", "true")

\* run() of instance l has returned.
Returned(l) == labs[l].pc \in {"returned", "stored"}

\* C24, as stated: whenever initialize, execute and collect-data return true
\* and analyze-data returns, run ends with status completed and the
\* analyze-data metrics attached, even if save-data returns false.
C24_AnalysedRunCompletes ==
    \A l \in Labs :
        (Returned(l) /\ AnalysisDone(l)) =>
            /\ labs[l].result.status = Status("COMPLETED")
            /\ labs[l].result.metrics = "analysis"

\* C24, amended: the same when save-data returns (true or false) and cleanup
\* returns; a save-data or cleanup that raises ends the run as failed.
C24_AnalysedRunCompletesUnlessRaise ==
    \A l \in Labs :
        (/\ Returned(l)
         /\ AnalysisDone(l)
         /\ ~Did(l, "save_data", "raise")
         /\ ~Did(l, "cleanup", "raise")) =>
            /\ labs[l].result.status = Status("COMPLETED")
            /\ labs[l].result.metrics = "analysis"

\* A run whose save_data returned False has ended completed, with metrics.
C24_Witness ==
    \E l \in Labs :
        /\ Returned(l)
        /\ AnalysisDone(l)
        /\ Did(l, "save_data", "false")
        /\ labs[l].result.status = Status("COMPLETED")
        /\ labs[l].result.metrics = "analysis"

\* The statuses of a run that completes, in order.
CompletedRunStatuses ==
    <<Status("PENDING"), Status("INITIALIZING"), Status("RUNNING"),
      Status("COLLECTING"), Status("ANALYZING"), Status("SAVING"),
      Status("CLEANING"), Status("COMPLETED")>>

IsPrefix(a, b) == Len(a) <= Len(b) /\ SubSeq(b, 1, Len(a)) = a

\* C29: run drives the result status through pending, initializing, running,
\* collecting, analyzing, saving, cleaning, completed in that order; when
\* initialize, execute or collect-data returns false no later phase is
\* invoked and the result has status failed, an error message naming the
\* phase, and its end time recorded.
C29_RunPhaseOrder ==
    \A l \in Labs :
        /\ labs[l].pc \in PhaseNames => IsPrefix(labs[l].statuses, CompletedRunStatuses)
        /\ (Returned(l) /\ labs[l].result.status = Status("COMPLETED")) =>
               labs[l].statuses = CompletedRunStatuses
        /\ \A p \in CheckedPhases :
               (Returned(l) /\ Did(l, p, "false")) =>
                   /\ labs[l].invoked[Len(labs[l].invoked)] = <<p, "false">>
                   /\ labs[l].result.status = Status("FAILED")
                   /\ labs[l].result.error_message = FailureMessage(p)
                   /\ labs[l].result.end_time # PyNone

\* C30: run never propagates an exception: when a phase raises, run returns
\* a result with status failed, the exception message as error message and
\* the end time recorded, and the metrics a completed analyze-data attached
\* are kept.
C30_ExceptionEndsRunFailed ==
    \A l \in Labs : \A p \in PhaseNames :
        Did(l, p, "raise") =>
            /\ Returned(l)
            /\ labs[l].invoked[Len(labs[l].invoked)] = <<p, "raise">>
            /\ labs[l].result.status = Status("FAILED")
            /\ labs[l].result.error_message = "error"
            /\ labs[l].result.end_time # PyNone
            /\ Did(l, "analyze_data", "true") => labs[l].result.metrics = "analysis"

\* cleanup raised after analyze_data had returned; the failed result still
\* carries the metrics.
C30_Witness ==
    \E l \in Labs :
        /\ Did(l, "analyze_data", "true")
        /\ Did(l, "cleanup", "raise")
        /\ labs[l].result.status = Status("FAILED")
        /\ labs[l].result.metrics = "analysis"

\* C31: in every reachable state of the resource manager and for every
\* host, status = busy iff current task count = max concurrent tasks.
C31_BusyIffFull ==
    \A h \in DOMAIN server_resources :
        server_resources[h].status = "busy" <=>
            server_resources[h].current_tasks = server_resources[h].max_tasks

\* A host that takes more than one task is full and busy while another
\* host, which has answered a probe before, is offline again.
C31_Witness ==
    \E h, g \in DOMAIN server_resources :
        /\ server_resources[h].max_tasks > 1
        /\ server_resources[h].status = "busy"
        /\ server_resources[h].current_tasks = server_resources[h].max_tasks
        /\ g # h
        /\ server_resources[g].last_heartbeat # None
        /\ server_resources[g].status = "offline"

\* get_cluster_summary: the number of hosts it reports as offline.
OfflineServers(sr) == Cardinality({h \in DOMAIN sr : sr[h].status = "offline"})

\* C32: after a monitoring cycle has run, every host whose last heartbeat is
\* older than 5 minutes has status offline, and the cluster summary counts
\* it among the offline servers, whatever its task count and whatever calls
\* of allocate_server and release_server came before.
C32_ExpiredHostOffline ==
    [][MonitoringCycle =>
         LET expired == {h \in Servers : HeartbeatExpired(server_resources'[h])}
         IN  /\ \A h \in expired : server_resources'[h].status = "offline"
             /\ OfflineServers(server_resources') >= Cardinality(expired)]_vars

\* The monitoring threads that were started and have not returned.
AliveMonitors == {m \in MonThreads : monitor[m].pc \notin {"none", "exited"}}

\* The monitoring threads inside labx.get_system_info(h).
Probing(h) == {m \in MonThreads : monitor[m].pc = "probe" /\ monitor[m].host = h}

\* C33: at any time at most one monitoring thread is alive and at most one
\* probe of a given host is in flight, for every sequence of
\* start_monitoring and stop_monitoring calls.
C33_OneMonitor ==
    /\ Cardinality(AliveMonitors) <= 1
    /\ \A h \in Servers : Cardinality(Probing(h)) <= 1

\* The components whose lock thread t is inside.
LocksHeldBy(t) == {c \in Components : lock_holder[c] = t}

\* C34: no thread is inside a component's lock while it is inside a call of
\* the remote capability or of a completion callback; a monitoring thread
\* inside a probe holds no lock.
C34_NoCallUnderLock ==
    /\ in_call # "none" => LocksHeldBy(CallerThread) = {}
    /\ \A m \in MonThreads : monitor[m].pc = "probe" => LocksHeldBy(m) = {}

\* C35: in every reachable state a task is in running_tasks iff its status
\* is running, in completed_tasks iff completed, in failed_tasks iff failed,
\* and the three maps are pairwise disjoint subsets of the task table.
C35_MapsAgreeWithStatus ==
    /\ \A t \in DOMAIN tasks :
           /\ t \in running_tasks <=> tasks[t].status = "running"
           /\ t \in completed_tasks <=> tasks[t].status = "completed"
           /\ t \in failed_tasks <=> tasks[t].status = "failed"
    /\ running_tasks \cup completed_tasks \cup failed_tasks \subseteq DOMAIN tasks
    /\ running_tasks \cap completed_tasks = {}
    /\ running_tasks \cap failed_tasks = {}
    /\ completed_tasks \cap failed_tasks = {}

\* C36: no reachable state has a fail_task call waiting for queue space
\* inside the task manager's lock.
C36_FailTaskNeverBlocks == put_blocked = None

\* C37: with tasks submitted through run_experiment only, no task has more
\* than one entry in the queue and no two workers are inside the lifecycle
\* of the same task, whatever the workers, the retries and the cancel_task
\* calls do.
C37_QueuedOnceRunOnce ==
    /\ \A t \in TaskIds : TimesQueued(task_queue, t) <= 1
    /\ \A w1, w2 \in Workers :
           w1 # w2 /\ pc[w1] = "run" /\ pc[w2] = "run" => wtask[w1] # wtask[w2]

\* A task that has run once and was put back for its retry waits in the
\* queue while a worker is inside the lifecycle of the other task, which a
\* cancel_task call has cancelled.
C37_Witness ==
    \E t \in DOMAIN tasks : \E w \in Workers :
        /\ lifecycle_runs[t] >= 1
        /\ TimesQueued(task_queue, t) = 1
        /\ pc[w] = "run"
        /\ wtask[w] # t
        /\ tasks[wtask[w]].status = "cancelled"

\* C38: a run_experiment call that fails because the queue rejects the task
\* leaves the task manager as it was: no task is added to the task table,
\* nothing is put in the queue and the created counter keeps its value.
C38_FailedRunChangesNothing ==
    [][RunExperiment /\ task_queue' = task_queue =>
         /\ tasks' = tasks
         /\ task_id_counter' = task_id_counter
         /\ stats' = stats]_vars

\* Task t has dependencies and submit_task finds them all completed.
DependenciesMet(tks, t) ==
    /\ t \in DOMAIN tks
    /\ tks[t].dependencies # {}
    /\ _check_dependencies(tks, tks[t])

\* C39: a task whose dependencies have all reached status completed keeps
\* passing the dependency check of submit_task for as long as it exists,
\* clear_completed_tasks calls included.
C39_ReadinessMonotonic ==
    [][\A t \in DOMAIN tasks' :
           DependenciesMet(tasks, t) => DependenciesMet(tasks', t)]_vars

\* The experiment tasks that got server s from get_idle_server and have not
\* released it yet.
HeldBy(s) == {e \in Experiments : exp[e].pc = "holding" /\ exp[e].server_name = s}

\* C40: in the SATuSGH manager a server is held by at most one experiment
\* task at a time.
C40_ServerHeldByOneTask == \A s \in SatServers : Cardinality(HeldBy(s)) <= 1

====
